---- MODULE Spec2Model ----
(***************************************************************************)
(* A model of the cm_plasticity scripts: core.Interval, the per-sweep and  *)
(* per-epoch processing of abf2pprox, and the rheobase computation of      *)
(* response-stats.                                                         *)
(*                                                                         *)
(* Numbers.  Floating point values are modelled as exact rationals with    *)
(* the two special values the code relies on, NaN and +-Inf, and Python's  *)
(* None: every value is a record [k, n, d] so that any two of them can be  *)
(* compared.  Times are in milliseconds, currents in tenths of a pA.       *)
(***************************************************************************)
EXTENDS Integers, Sequences, FiniteSets, TLC

VARIABLES
    \* core.Interval.mean_of: the receiver, the arguments and the return value
    interval, timeseries, events, mean_result, ipc,
    \* abf2pprox, one sweep: the sweep read from the ABF file (signals, command
    \* protocol, what the spike detector finds) and how the loop body ends
    sweep, outcome, spc,
    \* abf2pprox, one run: the arguments and the registry, the ABF file chosen and
    \* its sweeps, the loop's state, the fit's result, and what the run leaves behind
    registered, nfiles, args_epoch, abf, block, sweep_idx, pprox, hypol_I, hypol_V,
    fit, exit_status, errors, output_file, pc,
    \* response-stats, load_epoch: what json.load reads from the file abf2pprox wrote
    \* and what load_epoch makes of it
    data, frame,
    \* response-stats, one epoch: the rows of sweep_stats (in sweep order), their
    \* firing_rate_slope column, and the epoch's row of epoch_stats
    sweeps, firing_rate_slope, epoch_row, stpc,
    \* scan-epochs: the registry and the ABF files of the neuron (name -> what the
    \* file holds), the sorted list of files, the loop's counter, the lines printed
    \* and the messages logged
    scan_registered, directory, files, epoch_idx, printed, scan_log, scan_exit, scpc,
    \* response-stats, sweep_firing_stats: a row of the sweeps frame and the Series
    \* returned for it
    row, row_stats, rpc,
    \* response-stats: the voltages of the sweeps of one epoch and what is excluded
    iv_voltage, max_Vm_deviance, v_dev, bad_sweeps, iv_stats, sweep_stats, epoch_stats, dpc,
    \* response-stats: the epoch files given and the frames of epochs made of them
    pprox_files, epochs, epoch_frame, epoch_stats_csv, cpc

ivars == <<interval, timeseries, events, mean_result, ipc>>
swvars == <<sweep, outcome, spc>>
avars == <<registered, nfiles, args_epoch, abf, block, sweep_idx, pprox, hypol_I,
           hypol_V, fit, exit_status, errors, output_file, pc, data, frame>>
stvars == <<sweeps, firing_rate_slope, epoch_row, stpc>>

scvars == <<scan_registered, directory, files, epoch_idx, printed, scan_log, scan_exit, scpc>>

rvars == <<row, row_stats, rpc>>

dvars == <<iv_voltage, max_Vm_deviance, v_dev, bad_sweeps, iv_stats, sweep_stats, epoch_stats, dpc>>

cvars == <<pprox_files, epochs, epoch_frame, epoch_stats_csv, cpc>>

----------------------------------------------------------------------------
(* Values *)

None == [k |-> "none", n |-> 0, d |-> 1]
NaN == [k |-> "nan", n |-> 0, d |-> 1]
Inf(s) == [k |-> "inf", n |-> s, d |-> 1]

Abs(x) == IF x < 0 THEN -x ELSE x
Sign(x) == IF x < 0 THEN -1 ELSE IF x > 0 THEN 1 ELSE 0

RECURSIVE Gcd(_, _)
Gcd(a, b) == IF b = 0 THEN a ELSE Gcd(b, a % b)

\* the rational n/d in lowest terms, d > 0
Rat(n, d) ==
    LET s == IF d < 0 THEN -1 ELSE 1
        g == Gcd(Abs(n), Abs(d))
    IN [k |-> "num", n |-> (s * n) \div g, d |-> (s * d) \div g]

Num(n) == [k |-> "num", n |-> n, d |-> 1]

IsNum(x) == x.k = "num"
IsNaN(x) == x.k = "nan"
IsNone(x) == x.k = "none"

\* x <= y for numbers
Leq(x, y) == x.n * y.d <= y.n * x.d

Neg(x) == [x EXCEPT !.n = -x.n]

\* IEEE addition, subtraction and division (the sign of a zero is not modelled)
Add(x, y) ==
    IF IsNaN(x) \/ IsNaN(y) THEN NaN
    ELSE IF x.k = "inf" /\ y.k = "inf" THEN (IF x.n = y.n THEN x ELSE NaN)
    ELSE IF x.k = "inf" THEN x
    ELSE IF y.k = "inf" THEN y
    ELSE Rat(x.n * y.d + y.n * x.d, x.d * y.d)

Sub(x, y) == Add(x, Neg(y))

Div(x, y) ==
    IF IsNaN(x) \/ IsNaN(y) THEN NaN
    ELSE IF x.k = "inf" /\ y.k = "inf" THEN NaN
    ELSE IF x.k = "inf" THEN Inf(IF y.n < 0 THEN -x.n ELSE x.n)
    ELSE IF y.k = "inf" THEN Num(0)
    ELSE IF y.n = 0 THEN (IF x.n = 0 THEN NaN ELSE Inf(Sign(x.n)))
    ELSE Rat(x.n * y.d, x.d * y.n)

\* x * a / b for integers a, b # 0: a change of unit
Scaled(x, a, b) == IF IsNum(x) THEN Rat(x.n * a, x.d * b) ELSE x

RECURSIVE SumSeq(_)
SumSeq(s) ==
    IF Len(s) = 0 THEN 0
    ELSE IF Len(s) = 1 THEN s[1]
    ELSE SumSeq(SubSeq(s, 1, Len(s) \div 2)) + SumSeq(SubSeq(s, (Len(s) \div 2) + 1, Len(s)))

\* numpy.ndarray.mean(): NaN for an empty array
NpMean(s) == IF Len(s) = 0 THEN NaN ELSE Rat(SumSeq(s), Len(s))

\* Python's normalisation of one bound of a slice over n elements
SliceBound(i, n) ==
    IF i < 0 THEN (IF i + n < 0 THEN 0 ELSE i + n)
    ELSE IF i > n THEN n ELSE i

\* seq[start:end] with Python's semantics (0-based, negative bounds count from the end)
PySlice(s, start, end) ==
    LET lo == SliceBound(start, Len(s))
        hi == SliceBound(end, Len(s))
    IN IF lo >= hi THEN << >> ELSE SubSeq(s, lo + 1, hi)

----------------------------------------------------------------------------
(* core.Interval *)

Interval(start_index, end_index, sampling_period) ==
    [start_index |-> start_index, end_index |-> end_index,
     sampling_period |-> sampling_period]

Times(iv) ==
    <<iv.start_index * iv.sampling_period, iv.end_index * iv.sampling_period>>

ContainsClosed(iv, evs) ==
    \E i \in 1..Len(evs) : evs[i] >= Times(iv)[1] /\ evs[i] <= Times(iv)[2]

Contains(iv, evs) ==
    \E i \in 1..Len(evs) : evs[i] >= Times(iv)[1] /\ evs[i] < Times(iv)[2]

\* events is [given |-> FALSE] for events=None, else [given |-> TRUE, ev |-> <<...>>]
NoEvents == [given |-> FALSE, ev |-> << >>]
Events(evs) == [given |-> TRUE, ev |-> evs]

MeanOf(iv, ts, evs) ==
    IF evs.given /\ Contains(iv, evs.ev)
    THEN None
    ELSE NpMean(PySlice(ts, iv.start_index, iv.end_index))

----------------------------------------------------------------------------
(* abf2pprox: the body of the loop over the sweeps of an epoch.             *)
(*                                                                         *)
(* A sweep is a record                                                     *)
(*   sig         what is wrong with the signals of the segment, or "ok"    *)
(*   rate        the sampling rate in Hz                                   *)
(*   cmd, seglen the command current: seglen samples at each level of cmd  *)
(*               (tenths of a pA)                                          *)
(*   first_spike what SpikeFinder.calculate_threshold returns              *)
(*   spikes      the sample indices SpikeFinder.extract_spikes yields      *)
(* The spike detector and the exponential fit are library code: the model  *)
(* takes their results as inputs.                                          *)

IntervalPadding == 2
SteadyIntervalDepol == 300
SteadyIntervalHypol == 150
FirstSpikeAmplitudeMin == 30

\* int(<ms> * sampling_rate), the sampling rate being in kHz
Samples(ms, rate) == (ms * rate) \div 1000

\* segment.analogsignals[0].sampling_period in ms
SamplingPeriod(rate) == 1000 \div rate

\* the protocol's command signal, and the recorded current and voltage
CommandTrace(sw) ==
    [i \in 1..(Len(sw.cmd) * sw.seglen) |-> sw.cmd[((i - 1) \div sw.seglen) + 1]]
CurrentTrace(sw) == CommandTrace(sw)
\* the voltage the cell settles at under a current (mV for tenths of a pA): 2
\* mV/pA above rest, 3 mV/pA below it and 4 mV/pA at the deepest levels
DeepLevels == {-20, -1000}
SteadyVoltage(x) ==
    (IF x >= 0 THEN x \div 5 ELSE IF x \in DeepLevels THEN (2 * x) \div 5 ELSE (3 * x) \div 10) - 70
\* the recorded voltage lags the command: at the first sample of a new level it
\* is half way to the new steady voltage
VoltageTrace(sw) ==
    LET Ic == CommandTrace(sw)
    IN [i \in 1..Len(Ic) |->
          (SteadyVoltage(Ic[i]) + SteadyVoltage(Ic[IF i > 1 THEN i - 1 ELSE 1])) \div 2]

\* Ic.astype("i"): a C cast of each sample (tenths of a pA) to whole pA,
\* which truncates toward zero
TruncRound(x) == Sign(x) * ((Abs(x) + 5) \div 10)

Trunc(x) == Sign(x) * (Abs(x) \div 10)

AsTypeInt(a) == [i \in 1..Len(a) |-> Trunc(a[i])]

\* qst.runlength_encode: one record per run of equal values, in order, with the
\* run's value, its first (0-based) index and its length
\* the last index of the run that begins at index i
RunEnd(a, i) ==
    CHOOSE j \in i..Len(a) :
        /\ j = Len(a) \/ a[j + 1] # a[j]
        /\ \A k \in i..(j - 1) : a[k + 1] = a[k]

RECURSIVE RleFrom(_, _, _)
RleFrom(a, i, acc) ==
    IF i > Len(a) THEN acc
    ELSE RleFrom(a, RunEnd(a, i) + 1,
                 Append(acc, [val |-> a[i], start |-> i - 1, len |-> RunEnd(a, i) - i + 1]))

RunlengthEncode(a) == RleFrom(a, 1, << >>)

StepEndShort(st) == st.start + st.len - 1

\* step_end = step_start + step_len
StepEnd(st) == st.start + st.len

\* first_index(fn, seq): the 0-based index of the first element satisfying fn,
\* NoIndex for None
NoIndex == -1

FirstIndex(fn(_), seq) ==
    IF \E i \in 1..Len(seq) : fn(seq[i])
    THEN (CHOOSE i \in 1..Len(seq) : fn(seq[i]) /\ \A j \in 1..(i - 1) : ~fn(seq[j])) - 1
    ELSE NoIndex

IsZero(x) == x = 0
IsPositive(x) == x > 0
IsNegative(x) == x < 0

StepVal(steps) == [i \in 1..Len(steps) |-> steps[i].val]

\* a baseline lookup that falls back to the first step, as the depolarizing one does
BaselineStepOrZero(steps) ==
    LET i == FirstIndex(IsZero, StepVal(steps))
    IN IF i = NoIndex THEN 0 ELSE i

\* first_index(lambda x: x == 0, step_val)
BaselineStep(steps) == FirstIndex(IsZero, StepVal(steps))

\* first_index(lambda x: x > 0, step_val) or 0
DepolStep(steps) ==
    LET i == FirstIndex(IsPositive, StepVal(steps))
    IN IF i = NoIndex \/ i = 0 THEN 0 ELSE i

HypolStep(steps) == FirstIndex(IsNegative, StepVal(steps))

\* the averaging windows of the four steps (st is the step's run)
BaselineInterval(st, rate) ==
    Interval(st.start + Samples(IntervalPadding, rate),
             StepEnd(st) - Samples(IntervalPadding, rate), SamplingPeriod(rate))

DepolInterval(st, rate) ==
    Interval(StepEnd(st) - Samples(SteadyIntervalDepol, rate),
             StepEnd(st) - Samples(IntervalPadding, rate), SamplingPeriod(rate))

HypolInterval(st, rate) ==
    Interval(StepEnd(st) - Samples(SteadyIntervalHypol, rate),
             StepEnd(st) - Samples(IntervalPadding, rate), SamplingPeriod(rate))

\* the mean of the recorded current (tenths of a pA) in pA
MeanCurrent(iv, I) == Scaled(MeanOf(iv, I, NoEvents), 1, 10)

\* series_resistance(): dV/dI in mV/pA; current[idx + i_after] raises IndexError
\* past the end of the trace
SeriesResistanceRaises(current, idx, i_after) == idx + i_after >= Len(current)

\* before = Interval(idx - i_before, idx, None) of series_resistance
BeforeInterval(idx, i_before) == Interval(idx - i_before, idx, 0)

\* the spot values taken at idx itself
SeriesResistanceAtOnset(current, voltage, idx, i_before, i_after) ==
    LET before == Interval(idx - i_before, idx, 0)
        dI == Sub(MeanCurrent(before, current), Rat(current[idx + 1], 10))
        dV == Sub(MeanOf(before, voltage, NoEvents), Num(voltage[idx + 1]))
    IN Div(dV, dI)

SeriesResistance(current, voltage, idx, i_before, i_after) ==
    LET before == BeforeInterval(idx, i_before)
        dI == Sub(MeanCurrent(before, current), Rat(current[idx + i_after + 1], 10))
        dV == Sub(MeanOf(before, voltage, NoEvents), Num(voltage[idx + i_after + 1]))
    IN Div(dV, dI)

\* steady-state dV/dI between two steps, in mV/pA
MembraneResistance(V1, V0, I1, I0) == Div(Sub(V1, V0), Sub(I1, I0))

\* lines 268-286: whether the first spike is accepted, and the events kept
NoSpike == [found |-> FALSE, peak_V |-> 0, takeoff_V |-> 0]

SpikeRejectedLax(fs) ==
    \/ ~fs.found
    \/ fs.peak_V - fs.takeoff_V <= FirstSpikeAmplitudeMin

SpikeRejected(fs) ==
    \/ ~fs.found
    \/ fs.peak_V - fs.takeoff_V < FirstSpikeAmplitudeMin

\* the spikes appended to trial["events"], as sample indices
KeptSpikes(sw) == IF SpikeRejected(sw.first_spike) THEN << >> ELSE sw.spikes

\* trial["events"]: time * sampling_period.rescale("s"), in seconds
TrialEvents(sw) == [i \in 1..Len(KeptSpikes(sw)) |-> Rat(KeptSpikes(sw)[i], sw.rate)]

\* the same events in ms, as Interval.contains compares them with Interval.times
EventsMs(sw) ==
    Events([i \in 1..Len(KeptSpikes(sw)) |-> KeptSpikes(sw)[i] * SamplingPeriod(sw.rate)])


\* The loop body ends in one of three ways: a trial appended to pprox["pprox"],
\* log.error and parser.exit(-1), or an exception that nothing catches.
NoTrial ==
    [index |-> -1, events |-> << >>, fields |-> {}, steps_I |-> << >>,
     steps_V |-> << >>, stimulus_I |-> None, stimulus_interval |-> <<0, 0>>,
     Rs |-> None, Rm |-> None, temperature |-> None]

Exits(err) ==
    [kind |-> "exit", err |-> err, trial |-> NoTrial, hypol_I |-> << >>, hypol_V |-> << >>,
     steps |-> << >>, step_end |-> << >>, intervals |-> << >>]

Raises(err) ==
    [kind |-> "raise", err |-> err, trial |-> NoTrial, hypol_I |-> << >>, hypol_V |-> << >>,
     steps |-> << >>, step_end |-> << >>, intervals |-> << >>]

\* an Interval the loop body constructs: what it is for, the 0-based index of
\* the step it is taken from, and the Interval
Constructed(name, step, iv) == [name |-> name, step |-> step, iv |-> iv]

\* the signals of the segment are read before the command is encoded
SignalFault(sw) == sw.sig \in {"V_units", "I_units", "gapfree", "Ic_units", "T_absent"}

BaseFields == {"index", "offset", "events", "interval", "temperature", "steps", "Rs", "Rm"}

\* lines 182-361
SweepBody(sw, idx) ==
    LET rate == sw.rate
        I == CurrentTrace(sw)
        V == VoltageTrace(sw)
        steps == RunlengthEncode(AsTypeInt(CommandTrace(sw)))
        ev == EventsMs(sw)
        padding_samples == Samples(IntervalPadding, rate)
        after_samples == Samples(1, rate)
        \* baseline
        b == BaselineStep(steps)
        iv0 == BaselineInterval(steps[b + 1], rate)
        I0 == MeanCurrent(iv0, I)
        V0 == MeanOf(iv0, V, NoEvents)
        \* depolarization
        d == DepolStep(steps)
        iv1 == DepolInterval(steps[d + 1], rate)
        I1 == MeanCurrent(iv1, I)
        V1 == MeanOf(iv1, V, ev)
        \* hyperpolarization
        h == HypolStep(steps)
        iv2 == HypolInterval(steps[h + 1], rate)
        I2 == MeanCurrent(iv2, I)
        V2 == MeanOf(iv2, V, ev)
        Rs_1 == SeriesResistance(I, V, steps[h + 1].start, padding_samples, after_samples)
        Rm_1 == MembraneResistance(V2, V0, I2, I0)
        \* hyperpolarization step 2
        iv3 == HypolInterval(steps[h + 2], rate)
        I3 == MeanCurrent(iv3, I)
        V3 == MeanOf(iv3, V, ev)
        Rs_2 == SeriesResistance(I, V, steps[h + 2].start, padding_samples, after_samples)
        Rm_2 == MembraneResistance(V3, V2, I3, I2)
        trial ==
            [index |-> idx,
             events |-> TrialEvents(sw),
             fields |-> BaseFields
                  \cup (IF SpikeRejected(sw.first_spike) THEN {}
                        ELSE {"spike_base", "spike_thresh"})
                  \cup (IF d > 0 THEN {"stimulus"} ELSE {}),
             steps_I |-> <<I0, I1, I2, I3>>,
             steps_V |-> <<V0, V1, V2, V3>>,
             stimulus_I |-> IF d > 0 THEN I1 ELSE None,
             stimulus_interval |->
                 IF d > 0
                 THEN Times(Interval(steps[d + 1].start, StepEnd(steps[d + 1]),
                                     SamplingPeriod(rate)))
                 ELSE <<0, 0>>,
             Rs |-> Scaled(Add(Rs_1, Rs_2), 1000, 2),
             Rm |-> Scaled(Add(Rm_1, Rm_2), 1000, 2),
             temperature |-> IF sw.sig = "T_units" THEN None ELSE Num(32)]
        \* the Intervals constructed by the end of the depolarization, of the first
        \* hyperpolarization and of the second
        upto_depol ==
            <<Constructed("baseline", b, iv0), Constructed("depol", d, iv1)>>
            \o (IF d > 0
                THEN <<Constructed("stimulus", d,
                           Interval(steps[d + 1].start, StepEnd(steps[d + 1]),
                                    SamplingPeriod(rate)))>>
                ELSE << >>)
        upto_hypol ==
            upto_depol
            \o <<Constructed("hypol", h, iv2),
                 Constructed("before", h, BeforeInterval(steps[h + 1].start, padding_samples))>>
        upto_hypol_2 ==
            upto_hypol
            \o <<Constructed("hypol", h + 1, iv3),
                 Constructed("before", h + 1,
                             BeforeInterval(steps[h + 2].start, padding_samples))>>
        With(r, ivs) == [r EXCEPT !.intervals = ivs]
        \* step_len, step_start, step_val and step_end, once computed
        Encoded(r) ==
            [r EXCEPT !.steps = steps,
                      !.step_end = [i \in 1..Len(steps) |-> StepEnd(steps[i])]]
    IN  IF sw.sig = "V_units" THEN Exits("signal 0 units not voltage")
        ELSE IF sw.sig = "I_units" THEN Exits("signal 1 units not current")
        ELSE IF sw.sig = "gapfree" THEN Exits("no protocol information")
        ELSE IF sw.sig = "Ic_units" THEN Exits("protocol channel not current")
        ELSE IF sw.sig = "T_absent" THEN Raises("IndexError")
        ELSE Encoded(
        IF Len(steps) = 0 THEN Exits("no current steps")
        \* step_start[None] is a 2-d array, which mean_of cannot slice with: the
        \* Interval made of it has no sample indices
        ELSE IF b = NoIndex THEN Raises("TypeError")
        ELSE IF h = NoIndex THEN With(Raises("TypeError"), upto_depol)
        ELSE IF SeriesResistanceRaises(I, steps[h + 1].start, after_samples)
             THEN With(Raises("IndexError"), upto_hypol)
        \* None - float
        ELSE IF IsNone(V2) THEN With(Raises("TypeError"), upto_hypol)
        ELSE IF h + 1 >= Len(steps) THEN With(Raises("IndexError"), upto_hypol)
        ELSE IF SeriesResistanceRaises(I, steps[h + 2].start, after_samples)
             THEN With(Raises("IndexError"), upto_hypol_2)
        ELSE IF IsNone(V3) THEN With(Raises("TypeError"), upto_hypol_2)
        ELSE [kind |-> "trial", err |-> "", trial |-> trial,
              hypol_I |-> SubSeq(I, steps[h + 1].start + 1, StepEnd(steps[h + 1])),
              hypol_V |-> SubSeq(V, steps[h + 1].start + 1, StepEnd(steps[h + 1])),
              steps |-> << >>, step_end |-> << >>, intervals |-> upto_hypol_2])


----------------------------------------------------------------------------
(* abf2pprox: before and after the loop *)

\* files[args.epoch - 1]: the 0-based index of the file, NoIndex for IndexError.
\* A negative index counts from the end of the list.
EpochFile(epoch, n) ==
    LET i == epoch - 1
    IN IF i >= n \/ i < -n THEN NoIndex
       ELSE IF i < 0 THEN i + n ELSE i

RECURSIVE SumAt(_, _)
SumAt(traces, j) ==
    IF traces = << >> THEN 0 ELSE Head(traces)[j] + SumAt(Tail(traces), j)

\* np.mean(traces, axis=0) raises for traces of different lengths
Ragged(traces) == \E i, j \in 1..Len(traces) : Len(traces[i]) # Len(traces[j])

\* what fit_exponentials returns: two components, each an amplitude (mV) and a
\* lifetime (ms)
Positive(params) == SelectSeq(params, LAMBDA c : c.amplitude > 0)

Fastest(comps) ==
    CHOOSE c \in {comps[i] : i \in 1..Len(comps)} :
        \A i \in 1..Len(comps) : c.lifetime <= comps[i].lifetime

NoStats == [tau |-> None, Cm |-> None]

\* lines 364-383, for hypol_I in tenths of a pA: tau in ms and Cm in pF
EpochStats(hI_traces, params, rate) ==
    LET n == Len(hI_traces)
        len == Len(hI_traces[1])
        k == Samples(SteadyIntervalHypol, rate)
        hI == [j \in 1..len |-> SumAt(hI_traces, j)]
        tail == IF k = 0 THEN hI ELSE PySlice(hI, -k, len)
        comp == Fastest(Positive(params))
        tau == Num(comp.lifetime)
        dV == Num(comp.amplitude)
        dI == Sub(Rat(hI[1], 10 * n), Scaled(NpMean(tail), 1, 10 * n))
        Rm == Scaled(Div(dV, dI), 1000, 1)
    IN [tau |-> tau, Cm |-> Scaled(Div(tau, Rm), 1000, 1)]

Running == "running"
NoFit == << >>

----------------------------------------------------------------------------
(* json.dump(pprox, fp, default=json_serializable) and json.load *)

\* The Python values of a pprox document: what kind of object, its number (the
\* magnitude of a quantity) and its text (a string, the unit of a quantity, the
\* symbol of a unit).
PyInt(n) == [py |-> "int", mag |-> Num(n), text |-> ""]
PyFloat(x) == [py |-> IF IsNone(x) THEN "NoneType" ELSE "float", mag |-> x, text |-> ""]
PyStr(t) == [py |-> "str", mag |-> None, text |-> t]
NpGeneric(x) == [py |-> IF IsNone(x) THEN "NoneType" ELSE "generic", mag |-> x, text |-> ""]
Quantity(x, unit) ==
    [py |-> IF IsNone(x) THEN "NoneType" ELSE "Quantity", mag |-> x, text |-> unit]
UnitQuantity(symbol) == [py |-> "UnitQuantity", mag |-> Num(1), text |-> symbol]
DateTime(t) == [py |-> "datetime", mag |-> None, text |-> t]

\* the fallback of json_serializable applied to everything
JsonSerializableStr(val) == PyStr(val.text)

\* json_serializable: the symbol of a unit, the magnitude of a quantity, the item
\* of a numpy scalar, str() of anything else
JsonSerializable(val) ==
    CASE val.py = "UnitQuantity" -> PyStr(val.text)
      [] val.py = "Quantity" -> PyFloat(val.mag)
      [] val.py = "generic" -> PyFloat(val.mag)
      [] OTHER -> PyStr(val.text)

\* what the encoder writes for an int, a float, a str or None
JsonToken(val) ==
    CASE val.py = "NoneType" -> [j |-> "null", mag |-> Num(0), text |-> ""]
      [] val.py = "str" -> [j |-> "string", mag |-> Num(0), text |-> val.text]
      [] val.py = "int" -> [j |-> "int", mag |-> val.mag, text |-> ""]
      [] val.py = "float" /\ IsNum(val.mag) -> [j |-> "float", mag |-> val.mag, text |-> ""]
      [] val.py = "float" /\ IsNaN(val.mag) -> [j |-> "NaN", mag |-> Num(0), text |-> ""]
      [] OTHER ->
           [j |-> IF val.mag.n > 0 THEN "Infinity" ELSE "-Infinity", mag |-> Num(0), text |-> ""]

\* the encoder calls default for the objects it does not know
JsonEncode(val) ==
    IF val.py \in {"NoneType", "str", "int", "float"}
    THEN JsonToken(val)
    ELSE JsonToken(JsonSerializable(val))

\* json.load: the number a token stands for (None for null and for a string)
JsonDecode(tok) ==
    CASE tok.j \in {"int", "float"} -> tok.mag
      [] tok.j = "NaN" -> NaN
      [] tok.j = "Infinity" -> Inf(1)
      [] tok.j = "-Infinity" -> Inf(-1)
      [] OTHER -> None

EncodeSeq(vals) == [i \in 1..Len(vals) |-> JsonEncode(vals[i])]
DecodeSeq(toks) == [i \in 1..Len(toks) |-> JsonDecode(toks[i])]

\* the keys of the document, lines 168-176 and 379
DocumentKeys ==
    {"$schema", "source", "units", "epoch", "abf_file", "timestamp", "pprox", "epoch_stats"}

\* a trial as the encoder writes it: events in s, the stimulus interval in ms
JsonTrial(t) ==
    [fields |-> t.fields,
     index |-> JsonEncode(PyInt(t.index)),
     events |-> EncodeSeq([i \in 1..Len(t.events) |-> Quantity(t.events[i], "s")]),
     temperature |-> JsonEncode(Quantity(t.temperature, "C")),
     steps_I |-> EncodeSeq([i \in 1..Len(t.steps_I) |-> NpGeneric(t.steps_I[i])]),
     steps_V |-> EncodeSeq([i \in 1..Len(t.steps_V) |-> NpGeneric(t.steps_V[i])]),
     stimulus_I |-> JsonEncode(NpGeneric(t.stimulus_I)),
     stimulus_interval |->
         EncodeSeq([i \in 1..2 |-> Quantity(Num(t.stimulus_interval[i]), "ms")]),
     Rs |-> JsonEncode(Quantity(t.Rs, "MOhm")),
     Rm |-> JsonEncode(Quantity(t.Rm, "MOhm"))]

\* json.dump of the document
JsonDump(epoch, trials, stats) ==
    [keys |-> DocumentKeys,
     epoch |-> JsonEncode(PyInt(epoch)),
     timestamp |-> JsonEncode(DateTime("rec_datetime")),
     units |-> JsonEncode(UnitQuantity("ms")),
     pprox |-> [i \in 1..Len(trials) |-> JsonTrial(trials[i])],
     epoch_stats |-> [tau |-> JsonEncode(Quantity(stats.tau, "ms")),
                      Cm |-> JsonEncode(Quantity(stats.Cm, "pF"))]]

LoadTrial(t) ==
    [fields |-> t.fields,
     index |-> JsonDecode(t.index),
     events |-> DecodeSeq(t.events),
     temperature |-> JsonDecode(t.temperature),
     steps_I |-> DecodeSeq(t.steps_I),
     steps_V |-> DecodeSeq(t.steps_V),
     stimulus_I |-> JsonDecode(t.stimulus_I),
     stimulus_interval |-> DecodeSeq(t.stimulus_interval),
     Rs |-> JsonDecode(t.Rs),
     Rm |-> JsonDecode(t.Rm)]

\* json.load of the file
JsonLoad(doc) ==
    [keys |-> doc.keys,
     epoch |-> JsonDecode(doc.epoch),
     timestamp |-> doc.timestamp.text,
     pprox |-> [i \in 1..Len(doc.pprox) |-> LoadTrial(doc.pprox[i])],
     epoch_stats |-> [tau |-> JsonDecode(doc.epoch_stats.tau),
                      Cm |-> JsonDecode(doc.epoch_stats.Cm)]]

NoDocument == JsonDump(0, << >>, NoStats)
NoData == JsonLoad(NoDocument)
NoFrame == [kind |-> "none", missing |-> {}, rows |-> << >>]

\* the top-level keys load_epoch names as meta fields of json_normalize
MetaKeys == {"cell", "epoch", "bird", "age", "sex", "sire", "dam", "timestamp", "stats"}

\* load_epoch after json.load: json_normalize raises KeyError for a meta key the
\* document does not have; otherwise there is one row per trial
LoadEpochFrame(doc) ==
    IF MetaKeys \subseteq doc.keys
    THEN [kind |-> "frame", missing |-> {}, rows |-> doc.pprox]
    ELSE [kind |-> "KeyError", missing |-> MetaKeys \ doc.keys, rows |-> << >>]
NoFile ==
    [written |-> FALSE, epoch |-> 0, pprox |-> << >>, epoch_stats |-> NoStats,
     json |-> NoDocument]

----------------------------------------------------------------------------
(* response-stats: f-I slope and rheobase of an epoch *)

\* x > 0 as pandas compares floats: False for NaN
Gt0(x) == (x.k = "num" /\ x.n > 0) \/ (x.k = "inf" /\ x.n > 0)

\* Series.diff(): NaN for the first row
Diff(col) == [i \in 1..Len(col) |-> IF i = 1 THEN NaN ELSE Sub(col[i], col[i - 1])]

\* Series.mean(): the mean of the values that are not NaN, NaN when there is none
RECURSIVE AddSeq(_)
AddSeq(s) == IF s = << >> THEN Num(0) ELSE Add(Head(s), AddSeq(Tail(s)))

\* the mean of all the values, NaN among them
MeanAll(col) == IF col = << >> THEN NaN ELSE Div(AddSeq(col), Num(Len(col)))

MeanSkipNa(col) ==
    LET valid == SelectSeq(col, LAMBDA x : ~IsNaN(x))
    IN IF valid = << >> THEN NaN ELSE Div(AddSeq(valid), Num(Len(valid)))

Column(rows, name) == [i \in 1..Len(rows) |-> rows[i][name]]

\* the 0-based positions of the rows with firing_rate > 0
Firing(rows) == {i - 1 : i \in {j \in 1..Len(rows) : Gt0(rows[j].firing_rate)}}

Min(S) == CHOOSE x \in S : \A y \in S : x <= y

EpochFiringSlopeAlways(rows) ==
    LET rate == Diff(Column(rows, "firing_rate"))
        cur == Diff(Column(rows, "current"))
    IN [i \in 1..Len(rows) |-> Div(rate[i], cur[i])]

\* epoch_firing_slope
EpochFiringSlope(rows) ==
    IF Firing(rows) = {}
    THEN [i \in 1..Len(rows) |-> NaN]
    ELSE LET rate == Diff(Column(rows, "firing_rate"))
             cur == Diff(Column(rows, "current"))
         IN [i \in 1..Len(rows) |->
                IF i - 1 < Min(Firing(rows)) THEN NaN ELSE Div(rate[i], cur[i])]

\* fr_slope.index.get_loc(fr_slope.first_valid_index()): the 0-based position of
\* the first slope that is not NaN; NoIndex stands for the KeyError of get_loc(None)
FirstValid(col) == FirstIndex(LAMBDA x : ~IsNaN(x), col)

\* sweeps.current.iloc[idx - 1 : idx + 1].mean()
Rheobase(rows, idx) ==
    MeanSkipNa(PySlice(Column(rows, "current"), idx - 1, idx + 1))

\* epoch_firing_stats: the rheobase and slope columns
EpochFiringStats(rows, fr_slope) ==
    IF FirstValid(fr_slope) = NoIndex
    THEN [rheobase |-> NaN, slope |-> Num(0)]
    ELSE [rheobase |-> Rheobase(rows, FirstValid(fr_slope)),
          slope |-> MeanSkipNa(fr_slope)]

----------------------------------------------------------------------------
(* Bounds *)

MaxLen == 3         \* longest timeseries given to mean_of
MaxIndex == 3       \* largest sample index of an Interval
MaxEvents == 2      \* most event times given to mean_of
MaxSegs == 4        \* most levels of a command sequence
MaxFiles == 2       \* most ABF files of a neuron
MaxSweeps == 2      \* most sweeps of an epoch
MaxRows == 3        \* most rows of sweep_stats of one epoch
MaxScan == 3        \* most ABF files of a neuron that scan-epochs visits
MaxTime == 4        \* latest time of an event or of the end of a window
MaxSpikes == 3      \* most events of a sweep given to sweep_firing_stats
MaxPprox == 3       \* most epoch files given to response-stats

SeqsUpTo(S, n) == UNION {[1..m -> S] : m \in 0..n}

SamplePeriods == {1, 2}
SampleValues == {0, 1}
EventTimes == 0..(MaxIndex + 1)

----------------------------------------------------------------------------
(* The variables of a script that a specification does not run keep these values *)

Idle == "idle"

IdleInterval ==
    /\ interval = Interval(0, 0, 1)
    /\ timeseries = << >>
    /\ events = NoEvents
    /\ mean_result = NaN
    /\ ipc = Idle

IdleSweep ==
    /\ sweep = [sig |-> "ok", rate |-> 20, cmd |-> << >>, seglen |-> 1,
                first_spike |-> NoSpike, spikes |-> << >>]
    /\ outcome = Exits("")
    /\ spc = Idle

IdleRun ==
    /\ registered = FALSE
    /\ nfiles = 0
    /\ args_epoch = 0
    /\ abf = NoIndex
    /\ block = << >>
    /\ sweep_idx = 0
    /\ pprox = << >>
    /\ hypol_I = << >>
    /\ hypol_V = << >>
    /\ fit = NoFit
    /\ exit_status = Running
    /\ errors = << >>
    /\ output_file = NoFile
    /\ pc = Idle
    /\ data = NoData
    /\ frame = NoFrame

NoRow == [rheobase |-> None, slope |-> None]

IdleStats ==
    /\ sweeps = << >>
    /\ firing_rate_slope = << >>
    /\ epoch_row = NoRow
    /\ stpc = Idle

IdleScan ==
    /\ scan_registered = FALSE
    /\ directory = << >>
    /\ files = << >>
    /\ epoch_idx = 0
    /\ printed = << >>
    /\ scan_log = << >>
    /\ scan_exit = Running
    /\ scpc = Idle

IdleRow ==
    /\ row = [stimulus_interval |-> [given |-> FALSE, left |-> 0, right |-> 0],
              spont_interval |-> [given |-> TRUE, left |-> 0, right |-> 1],
              events |-> << >>, first_spike_width |-> NaN, first_spike_trough_t |-> NaN]
    /\ row_stats = [n_spont |-> 0, n_evoked |-> 0, firing_rate |-> None,
                    firing_duration |-> None]
    /\ rpc = Idle

IdleDeviance ==
    /\ iv_voltage = << >>
    /\ max_Vm_deviance = 0
    /\ v_dev = << >>
    /\ bad_sweeps = << >>
    /\ iv_stats = << >>
    /\ sweep_stats = << >>
    /\ epoch_stats = << >>
    /\ dpc = Idle

IdleCells ==
    /\ pprox_files = << >>
    /\ epochs = << >>
    /\ epoch_frame = << >>
    /\ epoch_stats_csv = << >>
    /\ cpc = Idle

----------------------------------------------------------------------------
(* Interval.mean_of applied to every interval, timeseries and events *)

InitInterval ==
    /\ interval \in {Interval(s, e, p) :
            s \in (-1)..MaxIndex, e \in (-1)..MaxIndex, p \in SamplePeriods}
    /\ timeseries \in SeqsUpTo(SampleValues, MaxLen)
    /\ events \in {NoEvents} \cup {Events(evs) : evs \in SeqsUpTo(EventTimes, MaxEvents)}
    /\ mean_result = NaN
    /\ ipc = "init"
    /\ IdleSweep
    /\ IdleRun
    /\ IdleStats
    /\ IdleScan
    /\ IdleRow
    /\ IdleDeviance
    /\ IdleCells

MeanOfCall ==
    /\ ipc = "init"
    /\ mean_result' = MeanOf(interval, timeseries, events)
    /\ ipc' = "returned"
    /\ UNCHANGED <<interval, timeseries, events>>
    /\ UNCHANGED <<swvars, avars, stvars>>
    /\ UNCHANGED cvars
    /\ UNCHANGED dvars
    /\ UNCHANGED rvars
    /\ UNCHANGED scvars

----------------------------------------------------------------------------
(* One sweep of abf2pprox, for every command sequence *)

CmdLevels == {-20, -10, 5, 10}
SegLens == {1, 3, 6}
SampleRates == {20, 1000}
FirstSpikes ==
    {NoSpike} \cup {[found |-> TRUE, peak_V |-> 0, takeoff_V |-> t] : t \in {-20, -30}}

\* spikes at the first or the last sample of a segment
SpikeSamples(cmd, seglen) ==
    UNION {{(i - 1) * seglen, i * seglen - 1} : i \in 1..Len(cmd)}

SpikeTrains(P) ==
    {<< >>} \cup {<<a>> : a \in P}
    \cup {<<p[1], p[2]>> : p \in {q \in P \X P : q[1] < q[2]}}

\* a detector that finds no first spike has no spikes to extract
SweepsOf(cmd, seglen, rate) ==
    {[sig |-> "ok", rate |-> rate, cmd |-> cmd, seglen |-> seglen,
      first_spike |-> fs, spikes |-> sp] :
        fs \in FirstSpikes \ {NoSpike}, sp \in SpikeTrains(SpikeSamples(cmd, seglen))}
    \cup {[sig |-> "ok", rate |-> rate, cmd |-> cmd, seglen |-> seglen,
            first_spike |-> NoSpike, spikes |-> << >>]}

Protocol == <<5, 10, -10, -20>>

Signals == {"V_units", "I_units", "gapfree", "Ic_units", "T_units", "T_absent"}

BadSignalSweeps ==
    {[sig |-> g, rate |-> 20, cmd |-> Protocol, seglen |-> 6,
      first_spike |-> NoSpike, spikes |-> << >>] : g \in Signals}

\* sweeps of the protocol the scripts are written for, sampled at 1 kHz: 300 ms
\* at each of 0, +50, -50, -100 and -50 pA (or with the hyperpolarizing levels
\* not nested), and one spike of 40 mV at 50 ms (in the baseline) or 10 ms before
\* the end of the depolarizing step or of a hyperpolarizing step
ProtocolSweeps ==
    {[sig |-> "ok", rate |-> 1000, cmd |-> cmd, seglen |-> 300,
      first_spike |-> [found |-> TRUE, peak_V |-> 0, takeoff_V |-> -40],
      spikes |-> <<t>>] :
        cmd \in {<<0, 500, -500, -1000, -500>>, <<0, 500, -1000, -500>>},
        t \in {50, 590, 890, 1190}}

InitSweep ==
    /\ \/ \E cmd \in SeqsUpTo(CmdLevels, MaxSegs), seglen \in SegLens, rate \in SampleRates :
            sweep \in SweepsOf(cmd, seglen, rate)
       \/ sweep \in BadSignalSweeps
       \/ sweep \in ProtocolSweeps
    /\ outcome = Exits("")
    /\ spc = "sweep"
    /\ IdleInterval
    /\ IdleRun
    /\ IdleStats
    /\ IdleScan
    /\ IdleRow
    /\ IdleDeviance
    /\ IdleCells

ProcessSweep ==
    /\ spc = "sweep"
    /\ outcome' = SweepBody(sweep, 0)
    /\ spc' = "done"
    /\ UNCHANGED sweep
    /\ UNCHANGED <<ivars, avars, stvars>>
    /\ UNCHANGED cvars
    /\ UNCHANGED dvars
    /\ UNCHANGED rvars
    /\ UNCHANGED scvars

----------------------------------------------------------------------------
(* One run of abf2pprox *)

\* the sweeps of an epoch: the protocol with a depolarizing step, with a step of
\* zero amplitude and with a negative first step; no spike, a spike at the end of
\* the second segment or at the end of the third
EpochProtocols == {<<5, 10, -10, -20>>, <<5, 5, -10, -20>>, <<5, -10, -10, -20>>}

EpochSweeps ==
    {[sig |-> "ok", rate |-> 20, cmd |-> cmd, seglen |-> 6,
      first_spike |-> NoSpike, spikes |-> << >>] : cmd \in EpochProtocols}
    \cup
    {[sig |-> "ok", rate |-> 20, cmd |-> cmd, seglen |-> 6,
      first_spike |-> [found |-> TRUE, peak_V |-> 0, takeoff_V |-> -30],
      spikes |-> <<t>>] : cmd \in EpochProtocols, t \in {11, 17}}
    \cup
    {[sig |-> g, rate |-> 20, cmd |-> Protocol, seglen |-> 6,
      first_spike |-> NoSpike, spikes |-> << >>] :
        g \in {"gapfree", "T_units", "V_units", "I_units", "Ic_units"}}
    \cup
    \* an empty command: no current steps
    {[sig |-> "ok", rate |-> 20, cmd |-> << >>, seglen |-> 6,
      first_spike |-> NoSpike, spikes |-> << >>]}

Blocks == UNION {[1..m -> EpochSweeps] : m \in 1..MaxSweeps}

FitResults ==
    {<<[amplitude |-> a1, lifetime |-> 5], [amplitude |-> a2, lifetime |-> 20]>> :
        a1 \in {-1, 2}, a2 \in {-1, 2}}

Init ==
    /\ registered \in BOOLEAN
    /\ nfiles \in 0..MaxFiles
    /\ args_epoch \in (-(MaxFiles + 1))..(MaxFiles + 1)
    /\ abf = NoIndex
    /\ block = << >>
    /\ sweep_idx = 0
    /\ pprox = << >>
    /\ hypol_I = << >>
    /\ hypol_V = << >>
    /\ fit = NoFit
    /\ exit_status = Running
    /\ errors = << >>
    /\ output_file = NoFile
    /\ pc = "lookup"
    /\ data = NoData
    /\ frame = NoFrame
    /\ IdleInterval
    /\ IdleSweep
    /\ IdleStats
    /\ IdleScan
    /\ IdleRow
    /\ IdleDeviance
    /\ IdleCells

\* log.error(...); parser.exit(-1)
ErrorExit(msg) ==
    /\ errors' = Append(errors, msg)
    /\ exit_status' = "255"
    /\ pc' = "done"

\* an exception nothing catches: a traceback, and the interpreter exits with 1
Uncaught ==
    /\ errors' = errors
    /\ exit_status' = "1"
    /\ pc' = "done"

\* lines 152-161
Lookup ==
    /\ pc = "lookup"
    /\ IF ~registered
       THEN ErrorExit("not in neurobank registry") /\ abf' = abf
       ELSE IF EpochFile(args_epoch, nfiles) = NoIndex
       THEN ErrorExit("there is no epoch") /\ abf' = abf
       ELSE /\ abf' = EpochFile(args_epoch, nfiles)
            /\ pc' = "read"
            /\ UNCHANGED <<errors, exit_status>>
    /\ UNCHANGED <<registered, nfiles, args_epoch, block, sweep_idx, pprox, hypol_I,
                   hypol_V, fit, output_file>>
    /\ UNCHANGED <<data, frame>>
    /\ UNCHANGED <<ivars, swvars, stvars>>
    /\ UNCHANGED cvars
    /\ UNCHANGED dvars
    /\ UNCHANGED rvars
    /\ UNCHANGED scvars

\* lines 163-180
ReadBlock ==
    /\ pc = "read"
    /\ block' \in Blocks
    /\ pprox' = << >>
    /\ hypol_I' = << >>
    /\ hypol_V' = << >>
    /\ sweep_idx' = 0
    /\ pc' = "sweeps"
    /\ UNCHANGED <<registered, nfiles, args_epoch, abf, fit, exit_status, errors,
                   output_file>>
    /\ UNCHANGED <<data, frame>>
    /\ UNCHANGED <<ivars, swvars, stvars>>
    /\ UNCHANGED cvars
    /\ UNCHANGED dvars
    /\ UNCHANGED rvars
    /\ UNCHANGED scvars

\* the loop goes on to the statistics after the first sweep
LastSweepAlways(idx, blk) == TRUE

\* line 182: the loop over block.segments ends after the last of them
LastSweep(idx, blk) == idx + 1 = Len(blk)

\* lines 182-361, once per sweep
LoopBody ==
    /\ pc = "sweeps"
    /\ sweep_idx < Len(block)
    /\ LET r == SweepBody(block[sweep_idx + 1], sweep_idx)
       IN IF r.kind = "trial"
          THEN /\ pprox' = Append(pprox, r.trial)
               /\ hypol_I' = Append(hypol_I, r.hypol_I)
               /\ hypol_V' = Append(hypol_V, r.hypol_V)
               /\ sweep_idx' = sweep_idx + 1
               /\ pc' = IF LastSweep(sweep_idx, block) THEN "stats" ELSE "sweeps"
               /\ UNCHANGED <<errors, exit_status>>
          ELSE /\ IF r.kind = "exit" THEN ErrorExit(r.err) ELSE Uncaught
               /\ UNCHANGED <<pprox, hypol_I, hypol_V, sweep_idx>>
    /\ UNCHANGED <<registered, nfiles, args_epoch, abf, block, fit, output_file>>
    /\ UNCHANGED <<data, frame>>
    /\ UNCHANGED <<ivars, swvars, stvars>>
    /\ UNCHANGED cvars
    /\ UNCHANGED dvars
    /\ UNCHANGED rvars
    /\ UNCHANGED scvars

\* lines 363-390
WriteEpoch ==
    /\ pc = "stats"
    /\ \E params \in FitResults :
          /\ fit' = params
          /\ IF Ragged(hypol_I) \/ Positive(params) = << >>
             THEN Uncaught /\ output_file' = output_file
             ELSE /\ output_file' =
                        [written |-> TRUE, epoch |-> args_epoch, pprox |-> pprox,
                         epoch_stats |-> EpochStats(hypol_I, params, block[1].rate),
                         json |-> JsonDump(args_epoch, pprox,
                                     EpochStats(hypol_I, params, block[1].rate))]
                  /\ exit_status' = "0"
                  /\ pc' = "done"
                  /\ errors' = errors
    /\ UNCHANGED <<registered, nfiles, args_epoch, abf, block, sweep_idx, pprox,
                   hypol_I, hypol_V>>
    /\ UNCHANGED <<data, frame>>
    /\ UNCHANGED <<ivars, swvars, stvars>>
    /\ UNCHANGED cvars
    /\ UNCHANGED dvars
    /\ UNCHANGED rvars
    /\ UNCHANGED scvars

\* response-stats.py lines 21-47, load_epoch on the file the run wrote
LoadEpoch ==
    /\ pc = "done"
    /\ output_file.written
    /\ data' = JsonLoad(output_file.json)
    /\ frame' = LoadEpochFrame(JsonLoad(output_file.json))
    /\ pc' = "loaded"
    /\ UNCHANGED <<registered, nfiles, args_epoch, abf, block, sweep_idx, pprox,
                   hypol_I, hypol_V, fit, exit_status, errors, output_file>>
    /\ UNCHANGED <<ivars, swvars, stvars>>
    /\ UNCHANGED cvars
    /\ UNCHANGED dvars
    /\ UNCHANGED rvars
    /\ UNCHANGED scvars

----------------------------------------------------------------------------
(* The firing statistics of one epoch of response-stats *)

StatValues == {NaN, Num(0), Num(1), Num(2)}
StatRows == {[current |-> c, firing_rate |-> r] : c \in StatValues, r \in StatValues}
InitStats ==
    /\ \E m \in 1..MaxRows : sweeps \in [1..m -> StatRows]
    /\ firing_rate_slope = << >>
    /\ epoch_row = NoRow
    /\ stpc = "slope"
    /\ IdleInterval
    /\ IdleSweep
    /\ IdleRun
    /\ IdleScan
    /\ IdleRow
    /\ IdleDeviance
    /\ IdleCells

\* lines 264-269: groupby(cell, epoch).apply(epoch_firing_slope), joined
SlopeColumn ==
    /\ stpc = "slope"
    /\ firing_rate_slope' = EpochFiringSlope(sweeps)
    /\ stpc' = "stats"
    /\ UNCHANGED <<sweeps, epoch_row>>
    /\ UNCHANGED <<ivars, swvars, avars>>
    /\ UNCHANGED cvars
    /\ UNCHANGED dvars
    /\ UNCHANGED rvars
    /\ UNCHANGED scvars

\* lines 274-276: groupby(cell, epoch).apply(epoch_firing_stats)
EpochRow ==
    /\ stpc = "stats"
    /\ epoch_row' = EpochFiringStats(sweeps, firing_rate_slope)
    /\ stpc' = "done"
    /\ UNCHANGED <<sweeps, firing_rate_slope>>
    /\ UNCHANGED <<ivars, swvars, avars>>
    /\ UNCHANGED cvars
    /\ UNCHANGED dvars
    /\ UNCHANGED rvars
    /\ UNCHANGED scvars


----------------------------------------------------------------------------
(* scan-epochs *)

\* what an ABF file holds: a current-step protocol, no protocol at all, a
\* protocol without the command channel, or a command that is not a current
ScanKinds == {"steps", "no_protocol", "no_channel", "not_current"}

\* sorted(Path(path).glob("*.abf")): the names in increasing order
RECURSIVE SortedNames(_)
SortedNames(S) ==
    IF S = {} THEN << >>
    ELSE LET m == CHOOSE x \in S : \A y \in S : x <= y
         IN <<m>> \o SortedNames(S \ {m})

\* the command of every file counted as a current-step protocol
ReadCommandAny(kind) == "ok"

\* lines 47-54: protocols[0].analogsignals[command_channel].rescale(current)
ReadCommand(kind) ==
    CASE kind \in {"no_protocol", "no_channel"} -> "IndexError"
      [] kind = "not_current" -> "ValueError"
      [] OTHER -> "ok"

InitScan ==
    /\ scan_registered \in BOOLEAN
    /\ \E names \in SUBSET (1..MaxScan) : directory \in [names -> ScanKinds]
    /\ files = << >>
    /\ epoch_idx = 0
    /\ printed = << >>
    /\ scan_log = << >>
    /\ scan_exit = Running
    /\ scpc = "lookup"
    /\ IdleInterval
    /\ IdleSweep
    /\ IdleRun
    /\ IdleStats
    /\ IdleRow
    /\ IdleDeviance
    /\ IdleCells

\* lines 37-42: the registry lookup and the sorted list of files
ScanLookup ==
    /\ scpc = "lookup"
    /\ IF ~scan_registered
       THEN /\ scan_log' = Append(scan_log, <<0, "error: not in neurobank registry">>)
            /\ scan_exit' = "255"
            /\ scpc' = "done"
            /\ files' = files
       ELSE /\ files' = SortedNames(DOMAIN directory)
            /\ scpc' = "scan"
            /\ UNCHANGED <<scan_log, scan_exit>>
    /\ UNCHANGED <<scan_registered, directory, epoch_idx, printed>>
    /\ UNCHANGED <<ivars, swvars, avars, stvars>>
    /\ UNCHANGED cvars
    /\ UNCHANGED dvars
    /\ UNCHANGED rvars

\* lines 42-59: one pass of the loop over the files, epochs numbered from 1
ScanEpoch ==
    /\ scpc = "scan"
    /\ epoch_idx < Len(files)
    /\ LET idx == epoch_idx + 1
           r == ReadCommand(directory[files[idx]])
       IN /\ epoch_idx' = idx
          /\ IF r = "IndexError"
             THEN scan_log' = Append(scan_log, <<idx, "gapfree">>) /\ printed' = printed
             ELSE IF r = "ValueError"
             THEN scan_log' = Append(scan_log, <<idx, "not current clamp">>)
                  /\ printed' = printed
             ELSE printed' = Append(printed, idx) /\ scan_log' = scan_log
    /\ UNCHANGED <<scan_registered, directory, files, scan_exit, scpc>>
    /\ UNCHANGED <<ivars, swvars, avars, stvars>>
    /\ UNCHANGED cvars
    /\ UNCHANGED dvars
    /\ UNCHANGED rvars

\* the loop is exhausted and the script ends
ScanEnd ==
    /\ scpc = "scan"
    /\ epoch_idx = Len(files)
    /\ scan_exit' = "0"
    /\ scpc' = "done"
    /\ UNCHANGED <<scan_registered, directory, files, epoch_idx, printed, scan_log>>
    /\ UNCHANGED <<ivars, swvars, avars, stvars>>
    /\ UNCHANGED cvars
    /\ UNCHANGED dvars
    /\ UNCHANGED rvars


----------------------------------------------------------------------------
(* response-stats: sweep_firing_stats *)

\* e in pd.Interval(left, right): the interval is closed on the right only
InIntervalClosed(e, iv) == iv.left <= e /\ e <= iv.right

InInterval(e, iv) == iv.left < e /\ e <= iv.right

\* every event counted as spontaneous
SpontSpikesAll(r) == r.events

\* [e for e in sweep.events if e in spont_interval]
SpontSpikes(r) == SelectSeq(r.events, LAMBDA e : InInterval(e, r.spont_interval))

\* [e for e in sweep.events if e in step]
EvokedSpikes(r) == SelectSeq(r.events, LAMBDA e : InInterval(e, r.stimulus_interval))

\* lines 110-125; a missing stimulus.interval is NaN in the frame, and
\* pd.Interval(*NaN) raises the TypeError that the except clause catches
SweepFiringStats(r) ==
    LET spikes == EvokedSpikes(r)
        n_spikes == Len(spikes)
    IN [n_spont |-> Len(SpontSpikes(r)),
        n_evoked |-> IF r.stimulus_interval.given THEN n_spikes ELSE 0,
        firing_rate |->
            IF r.stimulus_interval.given
            THEN Rat(n_spikes, r.stimulus_interval.right - r.stimulus_interval.left)
            ELSE NaN,
        firing_duration |->
            IF ~r.stimulus_interval.given \/ n_spikes = 0 THEN NaN
            ELSE IF n_spikes = 1
                 THEN Scaled(Add(r.first_spike_width, r.first_spike_trough_t), 1, 1000)
                 ELSE Num(spikes[n_spikes] - spikes[1])]

NoRowStats == [n_spont |-> 0, n_evoked |-> 0, firing_rate |-> None, firing_duration |-> None]

\* intervals with left < right, as the steps of a command have; a sweep with no
\* stimulus has NaN there
PdIntervals ==
    {[given |-> TRUE, left |-> p[1], right |-> p[2]] :
        p \in {q \in (0..MaxTime) \X (0..MaxTime) : q[1] < q[2]}}
NoPdInterval == [given |-> FALSE, left |-> 0, right |-> 0]

\* the times of the spikes of a sweep, in increasing order
RECURSIVE Ascending(_)
Ascending(S) ==
    IF S = {} THEN << >>
    ELSE LET m == CHOOSE x \in S : \A y \in S : x <= y
         IN <<m>> \o Ascending(S \ {m})

EventLists == {Ascending(S) : S \in {T \in SUBSET (0..MaxTime) : Cardinality(T) <= MaxSpikes}}

InitRow ==
    /\ \E st \in PdIntervals \cup {NoPdInterval}, sp \in PdIntervals, ev \in EventLists,
          w \in {NaN, Num(1)} :
            row = [stimulus_interval |-> st, spont_interval |-> sp, events |-> ev,
                   first_spike_width |-> w, first_spike_trough_t |-> Num(2)]
    /\ row_stats = NoRowStats
    /\ rpc = "row"
    /\ IdleInterval
    /\ IdleSweep
    /\ IdleRun
    /\ IdleStats
    /\ IdleScan
    /\ IdleDeviance
    /\ IdleCells

\* line 263: sweep_firing_stats applied to the row
SweepFiringStatsCall ==
    /\ rpc = "row"
    /\ row_stats' = SweepFiringStats(row)
    /\ rpc' = "done"
    /\ UNCHANGED row
    /\ UNCHANGED <<ivars, swvars, avars, stvars>>
    /\ UNCHANGED cvars
    /\ UNCHANGED dvars
    /\ UNCHANGED scvars


----------------------------------------------------------------------------
(* response-stats: sweeps excluded for the deviance of their voltage *)

\* x > y as pandas compares floats: False when either is NaN
Gt(x, y) == Gt0(Sub(x, y))

\* Series.abs()
AbsR(x) == IF IsNum(x) THEN [x EXCEPT !.n = Abs(x.n)] ELSE x

\* the numbers of s in increasing order
RECURSIVE SortValues(_)
SortValues(s) ==
    IF s = << >> THEN << >>
    ELSE LET i == CHOOSE j \in 1..Len(s) : \A l \in 1..Len(s) : Leq(s[j], s[l])
         IN <<s[i]>> \o SortValues(SubSeq(s, 1, i - 1) \o SubSeq(s, i + 1, Len(s)))

\* Series.median(): the median of the values that are not NaN, NaN when there is none
Median(col) ==
    LET s == SortValues(SelectSeq(col, LAMBDA x : ~IsNaN(x)))
        n == Len(s)
    IN IF n = 0 THEN NaN
       ELSE IF n % 2 = 1 THEN s[(n + 1) \div 2]
       ELSE Scaled(Add(s[n \div 2], s[(n \div 2) + 1]), 1, 2)

\* the column of step c (0-based) of a frame whose rows are sweeps
StepColumn(group, c) == [r \in 1..Len(group) |-> group[r][c + 1]]

\* the deviation of every value from the median of its own row
IvDeviationBySweep(group) ==
    [r \in 1..Len(group) |->
        LET dev == [c \in 1..Len(group[r]) |-> AbsR(Sub(group[r][c], Median(group[r])))]
        IN [c \in 1..Len(group[r]) |-> Div(dev[c], Median(dev))]]

\* iv_deviation, applied to the voltages of the sweeps of one epoch: DataFrame.median()
\* is taken down each column, that is over the sweeps of the epoch for each step
IvDeviation(group) ==
    LET steps == 0..(Len(group[1]) - 1)
        med == [c \in steps |-> Median(StepColumn(group, c))]
        dev == [r \in 1..Len(group) |-> [c \in steps |-> AbsR(Sub(group[r][c + 1], med[c]))]]
        mad == [c \in steps |-> Median([r \in 1..Len(group) |-> dev[r][c]])]
    IN [r \in 1..Len(group) |-> [c \in 1..Len(group[r]) |-> Div(dev[r][c - 1], mad[c - 1])]]

\* line 256: the steps looked at, baseline and hyperpolarizations
CheckedSteps == {0, 2, 3, 4}

\* line 256: (v_dev[[0, 2, 3, 4]] > args.max_Vm_deviance).any(axis=1)
BadSweeps(dev, max_dev) ==
    [r \in 1..Len(dev) |-> \E c \in CheckedSteps : Gt(dev[r][c + 1], Num(max_dev))]

\* lines 259-260: .loc[~bad_sweeps], as the positions of the sweeps that stay
NotBad(bad) == SelectSeq([i \in 1..Len(bad) |-> i], LAMBDA i : ~bad[i])

\* lines 274-276: one row for each epoch that still has sweeps
EpochStatsRows(kept) == IF kept = << >> THEN << >> ELSE <<[n_sweeps |-> Len(kept)]>>

\* the steady-state voltages of the five steps of a sweep: level throughout, or
\* with one step off by 1 or by 5, or with no voltage for the first
\* hyperpolarization (a spike in its window)
SweepVoltages ==
    {[c \in 1..5 |-> IF c = k THEN d ELSE Num(0)] : k \in 0..5, d \in {Num(1), Num(5)}}
        \cup {<<Num(0), Num(0), NaN, Num(0), Num(0)>>}

MaxVmDeviances == {1, 4}

InitDeviance ==
    /\ \E m \in 1..MaxRows : iv_voltage \in [1..m -> SweepVoltages]
    /\ max_Vm_deviance \in MaxVmDeviances
    /\ v_dev = << >>
    /\ bad_sweeps = << >>
    /\ iv_stats = << >>
    /\ sweep_stats = << >>
    /\ epoch_stats = << >>
    /\ dpc = "check"
    /\ IdleInterval
    /\ IdleSweep
    /\ IdleRun
    /\ IdleStats
    /\ IdleScan
    /\ IdleRow
    /\ IdleCells

\* lines 248-257
CheckBadSweeps ==
    /\ dpc = "check"
    /\ v_dev' = IvDeviation(iv_voltage)
    /\ bad_sweeps' = BadSweeps(IvDeviation(iv_voltage), max_Vm_deviance)
    /\ dpc' = "exclude"
    /\ UNCHANGED <<iv_voltage, max_Vm_deviance, iv_stats, sweep_stats, epoch_stats>>
    /\ UNCHANGED <<ivars, swvars, avars, stvars>>
    /\ UNCHANGED cvars
    /\ UNCHANGED scvars
    /\ UNCHANGED rvars

\* lines 259-276
ExcludeBadSweeps ==
    /\ dpc = "exclude"
    /\ iv_stats' = NotBad(bad_sweeps)
    /\ sweep_stats' = NotBad(bad_sweeps)
    /\ epoch_stats' = EpochStatsRows(NotBad(bad_sweeps))
    /\ dpc' = "done"
    /\ UNCHANGED <<iv_voltage, max_Vm_deviance, v_dev, bad_sweeps>>
    /\ UNCHANGED <<ivars, swvars, avars, stvars>>
    /\ UNCHANGED cvars
    /\ UNCHANGED scvars
    /\ UNCHANGED rvars


----------------------------------------------------------------------------
(* response-stats: the time and the deltas of the epochs of each cell *)

\* the rows of a cell, in the order of the frame
OfCell(rows, c) == SelectSeq(rows, LAMBDA r : r.cell = c)

\* lines 236-246: one row for each (cell, epoch) in the order the files were
\* given; x - x.iloc[0] within each cell, in seconds
EpochTimes(loaded) ==
    [i \in 1..Len(loaded) |->
        [cell |-> loaded[i].cell, epoch |-> loaded[i].epoch,
         time |-> Num(loaded[i].timestamp - OfCell(loaded, loaded[i].cell)[1].timestamp)]]

\* the order of the keys of groupby(["cell", "epoch"])
KeyBefore(a, b) == a.cell < b.cell \/ (a.cell = b.cell /\ a.epoch <= b.epoch)

RECURSIVE SortByKey(_)
SortByKey(rows) ==
    IF rows = << >> THEN << >>
    ELSE LET i == CHOOSE j \in 1..Len(rows) : \A l \in 1..Len(rows) : KeyBefore(rows[j], rows[l])
         IN <<rows[i]>> \o SortByKey(SubSeq(rows, 1, i - 1) \o SubSeq(rows, i + 1, Len(rows)))

\* the time of (cell, epoch) in the epochs frame
TimeOf(frame_epochs, r) ==
    LET i == CHOOSE j \in 1..Len(frame_epochs) :
                 frame_epochs[j].cell = r.cell /\ frame_epochs[j].epoch = r.epoch
    IN frame_epochs[i].time

\* lines 274-276: sweep_stats grouped by (cell, epoch), the groups in the order of
\* their keys and only those that have a sweep, joined with the epochs frame
EpochStatsFrame(loaded, frame_epochs) ==
    LET groups == SortByKey(SelectSeq(loaded, LAMBDA r : r.n_sweeps > 0))
    IN [i \in 1..Len(groups) |->
          [cell |-> groups[i].cell, epoch |-> groups[i].epoch,
           Rs |-> groups[i].Rs, Rm |-> groups[i].Rm, Vm |-> groups[i].Vm,
           time |-> TimeOf(frame_epochs, groups[i])]]

\* lines 277-282: (x - x.iloc[0]) / x.iloc[0].abs()
RelativeDelta(x, first) == Div(Sub(x, first), AbsR(first))

\* lines 283-288: x - x.iloc[0]
Delta(x, first) == Sub(x, first)

\* lines 277-303: the deltas of every row to the first row of its cell
EpochStatsCsv(stats) ==
    [i \in 1..Len(stats) |->
        LET first == OfCell(stats, stats[i].cell)[1]
        IN [cell |-> stats[i].cell, epoch |-> stats[i].epoch, time |-> stats[i].time,
            Rs |-> stats[i].Rs, Rm |-> stats[i].Rm, Vm |-> stats[i].Vm,
            delta_Rs |-> RelativeDelta(stats[i].Rs, first.Rs),
            delta_Rm |-> RelativeDelta(stats[i].Rm, first.Rm),
            delta_Vm |-> Delta(stats[i].Vm, first.Vm)]]

\* what an epoch file brings: its cell and epoch, the time of its recording in
\* seconds, the number of its sweeps that are not excluded and their mean
\* resistances and voltage
EpochMeans ==
    {[Rs |-> Num(10), Rm |-> Num(-200), Vm |-> Num(-60)],
     [Rs |-> Num(20), Rm |-> Num(100), Vm |-> Num(-50)]}
PproxEpochs ==
    {[cell |-> c, epoch |-> e, timestamp |-> t, n_sweeps |-> n,
      Rs |-> v.Rs, Rm |-> v.Rm, Vm |-> v.Vm] :
        c \in 1..2, e \in 1..2, t \in {0, 60}, n \in {0, 2}, v \in EpochMeans}

\* no two files for the same epoch of the same cell
DistinctEpochs(loaded) ==
    \A i, j \in 1..Len(loaded) :
        (loaded[i].cell = loaded[j].cell /\ loaded[i].epoch = loaded[j].epoch) => i = j

InitCells ==
    /\ \E m \in 1..MaxPprox : \E l \in [1..m -> PproxEpochs] :
          DistinctEpochs(l) /\ pprox_files = l
    /\ epochs = << >>
    /\ epoch_frame = << >>
    /\ epoch_stats_csv = << >>
    /\ cpc = "epochs"
    /\ IdleInterval
    /\ IdleSweep
    /\ IdleRun
    /\ IdleStats
    /\ IdleScan
    /\ IdleRow
    /\ IdleDeviance

\* lines 236-246
EpochsFrame ==
    /\ cpc = "epochs"
    /\ epochs' = EpochTimes(pprox_files)
    /\ cpc' = "stats"
    /\ UNCHANGED <<pprox_files, epoch_frame, epoch_stats_csv>>
    /\ UNCHANGED <<ivars, swvars, avars, stvars>>
    /\ UNCHANGED scvars
    /\ UNCHANGED rvars
    /\ UNCHANGED dvars

\* lines 274-276
EpochStatsJoin ==
    /\ cpc = "stats"
    /\ epoch_frame' = EpochStatsFrame(pprox_files, epochs)
    /\ cpc' = "deltas"
    /\ UNCHANGED <<pprox_files, epochs, epoch_stats_csv>>
    /\ UNCHANGED <<ivars, swvars, avars, stvars>>
    /\ UNCHANGED scvars
    /\ UNCHANGED rvars
    /\ UNCHANGED dvars

\* lines 277-303
WriteEpochStats ==
    /\ cpc = "deltas"
    /\ epoch_stats_csv' = EpochStatsCsv(epoch_frame)
    /\ cpc' = "done"
    /\ UNCHANGED <<pprox_files, epochs, epoch_frame>>
    /\ UNCHANGED <<ivars, swvars, avars, stvars>>
    /\ UNCHANGED scvars
    /\ UNCHANGED rvars
    /\ UNCHANGED dvars

vars == <<ivars, swvars, avars, stvars, scvars, rvars, dvars, cvars>>

Next == Lookup \/ ReadBlock \/ LoopBody \/ WriteEpoch \/ LoadEpoch

Spec == Init /\ [][Next]_vars

NextInterval == MeanOfCall

SpecInterval == InitInterval /\ [][NextInterval]_vars

NextSweep == ProcessSweep

SpecSweep == InitSweep /\ [][NextSweep]_vars

NextStats == SlopeColumn \/ EpochRow

SpecStats == InitStats /\ [][NextStats]_vars

----------------------------------------------------------------------------
\* C1: mean_of returns None exactly when events are given and one of them lies in
\* [start_index*sampling_period, end_index*sampling_period); otherwise it returns
\* the mean of timeseries[start_index:end_index] (NaN when that slice is empty).
EventInWindow ==
    /\ events.given
    /\ \E i \in 1..Len(events.ev) :
          /\ interval.start_index * interval.sampling_period <= events.ev[i]
          /\ events.ev[i] < interval.end_index * interval.sampling_period

SliceElems ==
    LET n == Len(timeseries)
        lo == SliceBound(interval.start_index, n)
        hi == SliceBound(interval.end_index, n)
    IN [i \in 1..(IF hi > lo THEN hi - lo ELSE 0) |-> timeseries[lo + i]]

C1_MeanOf ==
    ipc = "returned" =>
        /\ EventInWindow => mean_result = None
        /\ ~EventInWindow =>
              /\ mean_result # None
              /\ Len(SliceElems) = 0 => mean_result = NaN
              /\ Len(SliceElems) > 0 =>
                    /\ IsNum(mean_result)
                    /\ mean_result.n * Len(SliceElems) = SumSeq(SliceElems) * mean_result.d

\* an event exactly at the end time, none inside: the mean is returned
C1_Witness ==
    /\ ipc = "returned"
    /\ events.given
    /\ \E i \in 1..Len(events.ev) :
          events.ev[i] = interval.end_index * interval.sampling_period
    /\ ~EventInWindow
    /\ IsNum(mean_result)
    /\ interval.start_index >= 0

----------------------------------------------------------------------------
(* Claims about one sweep of abf2pprox (SpecSweep) *)

\* the sweep reached the run-length encoding, and this is what it gave
Encoded == spc = "done" /\ ~SignalFault(sweep)

NoZeroStep == \A i \in 1..Len(outcome.steps) : outcome.steps[i].val # 0
NoPositiveStep == \A i \in 1..Len(outcome.steps) : outcome.steps[i].val <= 0
NoNegativeStep == \A i \in 1..Len(outcome.steps) : outcome.steps[i].val >= 0
\* the first negative step is the last step
NoSecondHypol ==
    /\ ~NoNegativeStep
    /\ outcome.steps[Len(outcome.steps)].val < 0
    /\ \A i \in 1..(Len(outcome.steps) - 1) : outcome.steps[i].val >= 0

StepsFound ==
    /\ Encoded
    /\ ~NoZeroStep /\ ~NoNegativeStep /\ ~NoSecondHypol
    /\ \A i \in 1..(Len(outcome.steps) - 1) :
          (outcome.steps[i].val < 0 /\ \A j \in 1..(i - 1) : outcome.steps[j].val >= 0) =>
              /\ outcome.steps[i].start + Samples(1, sweep.rate) < Len(CommandTrace(sweep))
              /\ outcome.steps[i + 1].start + Samples(1, sweep.rate)
                    < Len(CommandTrace(sweep))

\* a kept spike in the averaging window of the depolarizing step (k = 1) or of
\* the first or second hyperpolarizing step (k = 2, 3)
SpikeInWindow(k) ==
    LET st == outcome.steps
        i == IF k = 1 THEN DepolStep(st) + 1 ELSE HypolStep(st) + k - 1
        w == IF k = 1 THEN SteadyIntervalDepol ELSE SteadyIntervalHypol
        t0 == (st[i].start + st[i].len - Samples(w, sweep.rate)) * SamplingPeriod(sweep.rate)
        t1 == (st[i].start + st[i].len - Samples(IntervalPadding, sweep.rate))
                  * SamplingPeriod(sweep.rate)
    IN /\ sweep.first_spike.found
       /\ sweep.first_spike.peak_V - sweep.first_spike.takeoff_V >= FirstSpikeAmplitudeMin
       /\ \E j \in 1..Len(sweep.spikes) :
             /\ t0 <= sweep.spikes[j] * SamplingPeriod(sweep.rate)
             /\ sweep.spikes[j] * SamplingPeriod(sweep.rate) < t1

\* the protocol the script expects: a depolarizing step after the first step, and
\* the depolarizing and both hyperpolarizing steps at least as long as their
\* averaging windows
ExpectedProtocol ==
    /\ StepsFound
    /\ BaselineStep(outcome.steps) < DepolStep(outcome.steps)
    /\ DepolStep(outcome.steps) < HypolStep(outcome.steps)
    /\ outcome.steps[HypolStep(outcome.steps) + 2].val < 0
    /\ outcome.steps[DepolStep(outcome.steps) + 1].len
          >= Samples(SteadyIntervalDepol, sweep.rate)
    /\ \A k \in 1..2 :
          outcome.steps[HypolStep(outcome.steps) + k].len
              >= Samples(SteadyIntervalHypol, sweep.rate)

\* C3: a spike in the averaging window of the depolarizing or of a hyperpolarizing
\* step leaves that step's voltage undefined in the trial, and the sweep is
\* recorded all the same (stated for sweeps of the expected protocol).
C3_SpikeInWindowRecorded ==
    (ExpectedProtocol /\ \E k \in 1..3 : SpikeInWindow(k)) =>
        /\ outcome.kind = "trial"
        /\ \A k \in 1..3 : SpikeInWindow(k) => outcome.trial.steps_V[k + 1] = None

Accepted ==
    /\ sweep.first_spike.found
    /\ sweep.first_spike.peak_V - sweep.first_spike.takeoff_V >= FirstSpikeAmplitudeMin

\* C4: a sweep with no first spike, or one below the minimum amplitude, is recorded
\* with no events and no spike_thresh/spike_base, its steps, Rs and Rm computed;
\* with an accepted first spike the trial has both fields and one event per
\* extracted spike.
C4_QuiescentTrial ==
    spc = "done" =>
        /\ (outcome.kind = "trial" /\ ~Accepted) =>
              /\ outcome.trial.events = << >>
              /\ outcome.trial.fields \cap {"spike_thresh", "spike_base"} = {}
              /\ {"steps", "Rs", "Rm"} \subseteq outcome.trial.fields
              /\ Len(outcome.trial.steps_I) = 4 /\ Len(outcome.trial.steps_V) = 4
              /\ ~IsNone(outcome.trial.Rs) /\ ~IsNone(outcome.trial.Rm)
        /\ (outcome.kind = "trial" /\ Accepted) =>
              /\ {"spike_thresh", "spike_base"} \subseteq outcome.trial.fields
              /\ Len(outcome.trial.events) = Len(sweep.spikes)
              /\ \A i \in 1..Len(sweep.spikes) :
                    outcome.trial.events[i].n * sweep.rate
                        = sweep.spikes[i] * outcome.trial.events[i].d
        /\ (StepsFound /\ ~Accepted) => outcome.kind = "trial"

\* a first spike below the minimum amplitude, though there were spikes to extract
C4_Witness ==
    /\ spc = "done"
    /\ sweep.first_spike.found /\ ~Accepted
    /\ sweep.spikes # << >>
    /\ outcome.kind = "trial"
    /\ outcome.trial.events = << >>

\* the number of samples in the first k steps
RECURSIVE LenSum(_, _)
LenSum(st, k) == IF k = 0 THEN 0 ELSE LenSum(st, k - 1) + st[k].len

\* the sequence the values and lengths of the steps stand for
Rebuilt(st) ==
    [i \in 1..LenSum(st, Len(st)) |->
        st[CHOOSE k \in 1..Len(st) : LenSum(st, k - 1) < i /\ i <= LenSum(st, k)].val]

TowardZero(x) == IF x >= 0 THEN x \div 10 ELSE -((-x) \div 10)

\* C6: the encoded (value, start, length) steps rebuild the truncated command
\* exactly; the steps are contiguous from sample 0 (step_end[i] = step_start[i]
\* + step_len[i] = step_start[i+1]), neighbours differ in value, and the lengths
\* add up to the length of the trace.
C6_RunLengthRoundTrip ==
    Encoded =>
        LET st == outcome.steps
            Ic == CommandTrace(sweep)
        IN /\ Rebuilt(st) = [i \in 1..Len(Ic) |-> TowardZero(Ic[i])]
           /\ Len(outcome.step_end) = Len(st)
           /\ \A i \in 1..Len(st) :
                 /\ st[i].len > 0
                 /\ outcome.step_end[i] = st[i].start + st[i].len
                 /\ i = 1 => st[i].start = 0
                 /\ i < Len(st) =>
                       /\ outcome.step_end[i] = st[i + 1].start
                       /\ st[i].val # st[i + 1].val
                 /\ i = Len(st) => outcome.step_end[i] = Len(Ic)

\* neighbouring levels that truncate to the same value are one step
C6_Witness ==
    /\ Encoded
    /\ Len(outcome.steps) >= 2
    /\ Len(outcome.steps) < Len(sweep.cmd)
    /\ \E i \in 1..Len(sweep.cmd) : sweep.cmd[i] % 10 # 0

----------------------------------------------------------------------------
(* Claims about a run of abf2pprox (Spec) *)

\* C9: an epoch argument outside 1..N is refused: an error is logged, the process
\* exits with a failure status and no file is analyzed.
C9_EpochOutOfRange ==
    (pc # "lookup" /\ registered /\ args_epoch \notin 1..nfiles) =>
        /\ abf = NoIndex
        /\ exit_status = "255"
        /\ errors = <<"there is no epoch">>

\* C10: when the fit has no component with positive amplitude, the run still ends
\* normally: the file is written with every trial, tau and Cm undefined.
C10_UnusableFit ==
    (pc = "done" /\ fit # NoFit /\ ~Ragged(hypol_I)
        /\ \A i \in 1..Len(fit) : fit[i].amplitude <= 0) =>
        /\ exit_status = "0"
        /\ output_file.written
        /\ Len(output_file.pprox) = Len(block)
        /\ output_file.epoch_stats.tau \in {None, NaN}
        /\ output_file.epoch_stats.Cm \in {None, NaN}

----------------------------------------------------------------------------
(* Claims about the firing statistics of response-stats (SpecStats) *)

Fires(i) == sweeps[i].firing_rate.k = "num" /\ sweeps[i].firing_rate.n > 0

\* C7: an epoch in which no sweep has a firing rate above zero has no rheobase.
C7_NoFiringNoRheobase ==
    (stpc = "done" /\ \A i \in 1..Len(sweeps) : ~Fires(i)) => epoch_row.rheobase = NaN

\* silent sweeps at two different currents
C7_Witness ==
    /\ stpc = "done"
    /\ Len(sweeps) >= 2
    /\ \A i \in 1..Len(sweeps) : sweeps[i].firing_rate = Num(0) /\ IsNum(sweeps[i].current)
    /\ sweeps[1].current # sweeps[2].current
    /\ epoch_row.rheobase = NaN

FirstFiring == CHOOSE i \in 1..Len(sweeps) : Fires(i) /\ \A j \in 1..(i - 1) : ~Fires(j)

Between(x, a, b) == (Leq(a, x) /\ Leq(x, b)) \/ (Leq(b, x) /\ Leq(x, a))

\* C8: when some sweep fires, the rheobase lies between the currents of the last
\* silent sweep and the first firing sweep; when the first sweep, with no current
\* injected, already fires, the rheobase is undefined (stated for currents that
\* increase from sweep to sweep).
C8_RheobaseStraddles ==
    (stpc = "done" /\ \E i \in 1..Len(sweeps) : Fires(i)) =>
        /\ (/\ FirstFiring > 1
            /\ sweeps[FirstFiring - 1].firing_rate = Num(0)
            /\ IsNum(sweeps[FirstFiring - 1].current)
            /\ IsNum(sweeps[FirstFiring].current)) =>
              /\ IsNum(epoch_row.rheobase)
              /\ Between(epoch_row.rheobase, sweeps[FirstFiring - 1].current,
                         sweeps[FirstFiring].current)
        /\ (/\ FirstFiring = 1
            /\ sweeps[1].current = Num(0)
            /\ \A i \in 2..Len(sweeps) :
                  /\ IsNum(sweeps[i].current)
                  /\ sweeps[i].current.n > sweeps[i - 1].current.n) =>
              epoch_row.rheobase = NaN

----------------------------------------------------------------------------
(* Claims about the file abf2pprox writes, read back (Spec) *)

\* C11: the document read back with json.load has the epoch argument as its
\* epoch (an integer), one trial per sweep of the block in sweep order, each with
\* the sweep's index, and the times in seconds of the sweep's spikes in order.
C11_JsonRoundTrip ==
    pc = "loaded" =>
        /\ output_file.json.epoch.j = "int"
        /\ data.epoch = Num(args_epoch)
        /\ Len(data.pprox) = Len(block)
        /\ \A i \in 1..Len(block) :
              /\ data.pprox[i].index = Num(i - 1)
              /\ data.pprox[i].events =
                    [k \in 1..Len(KeptSpikes(block[i])) |->
                        Rat(KeptSpikes(block[i])[k], block[i].rate)]

\* two sweeps read back, one with a spike and one without
C11_Witness ==
    /\ pc = "loaded"
    /\ Len(data.pprox) = 2
    /\ \E i, j \in 1..2 :
          /\ data.pprox[i].events = << >>
          /\ Len(data.pprox[j].events) = 1
          /\ IsNum(data.pprox[j].events[1])
          /\ data.pprox[j].events[1].d # 1

\* the trial fields sweep_firing_stats and sweep_iv_stats read
TrialColumns ==
    {"index", "interval", "events", "stimulus", "spont_interval", "first_spike",
     "Rs", "Rm", "Vm", "temperature", "steps"}

\* C12: a document written by abf2pprox has every field response-stats reads:
\* load_epoch finds its meta fields and makes a frame, and every trial has the
\* fields of the sweep statistics and steps 0 to 4.
C12_FieldsPresent ==
    pc = "loaded" =>
        /\ frame.kind = "frame"
        /\ \A i \in 1..Len(data.pprox) :
              /\ TrialColumns \subseteq data.pprox[i].fields
              /\ Len(data.pprox[i].steps_I) >= 5
              /\ Len(data.pprox[i].steps_V) >= 5

NextScan == ScanLookup \/ ScanEpoch \/ ScanEnd

SpecScan == InitScan /\ [][NextScan]_vars

----------------------------------------------------------------------------
(* Claims about scan-epochs (SpecScan) *)

\* the number a file gets: its place among the names of the directory
Rank(name) == Cardinality({m \in DOMAIN directory : m <= name})

\* C13: once the scan is over every file has been visited, and the lines printed
\* are, in increasing order, exactly the epoch numbers (places in sorted filename
\* order, from 1) of the files with a command channel in units of current; while
\* it runs, the same holds for the files visited so far.
C13_ScanClassifies ==
    (scpc \in {"scan", "done"} /\ scan_registered) =>
        /\ scpc = "done" => epoch_idx = Cardinality(DOMAIN directory)
        /\ {printed[i] : i \in 1..Len(printed)} =
              {Rank(n) : n \in {m \in DOMAIN directory :
                                    directory[m] = "steps" /\ Rank(m) <= epoch_idx}}
        /\ \A i \in 1..(Len(printed) - 1) : printed[i] < printed[i + 1]

\* an epoch that is gapfree or not current clamp before a printed one, in a
\* directory whose file names are not their epoch numbers
C13_Witness ==
    /\ scpc = "done"
    /\ scan_exit = "0"
    /\ Len(files) = 2
    /\ directory[files[1]] # "steps"
    /\ printed = <<2>>
    /\ files[2] # 2

----------------------------------------------------------------------------
(* Claims about a sweep of the expected protocol (SpecSweep) *)

Positive0(x) == IsNum(x) /\ x.n > 0

\* one spike of 40 mV; a command of zero, one positive level and then two
\* negative levels, the second beyond the first; every level held at least as
\* long as its averaging window, and the padding window not empty
SingleSpikeProtocol ==
    /\ sweep.sig = "ok"
    /\ sweep.first_spike.found
    /\ sweep.first_spike.peak_V - sweep.first_spike.takeoff_V = 40
    /\ Len(sweep.spikes) = 1
    /\ Len(sweep.cmd) >= 4
    /\ sweep.cmd[1] = 0 /\ sweep.cmd[2] > 0
    /\ sweep.cmd[3] < 0 /\ sweep.cmd[4] < sweep.cmd[3]
    /\ sweep.seglen >= Samples(SteadyIntervalDepol, sweep.rate)
    /\ Samples(IntervalPadding, sweep.rate) > 0

\* C14: such a sweep gives a trial with exactly one event, at the spike's time in
\* seconds, and with Rs and Rm both positive.
C14_SingleSpikeSweep ==
    (spc = "done" /\ SingleSpikeProtocol) =>
        /\ outcome.kind = "trial"
        /\ outcome.trial.events = <<Rat(sweep.spikes[1], sweep.rate)>>
        /\ Positive0(outcome.trial.Rs)
        /\ Positive0(outcome.trial.Rm)

\* the same with the spike outside the averaging windows of the two
\* hyperpolarizing steps, as the spike at 50 ms is
SingleSpikeBeforeHypol ==
    (spc = "done" /\ SingleSpikeProtocol /\ sweep.spikes[1] < 2 * sweep.seglen) =>
        /\ outcome.kind = "trial"
        /\ outcome.trial.events = <<Rat(sweep.spikes[1], sweep.rate)>>
        /\ Positive0(outcome.trial.Rs)
        /\ Positive0(outcome.trial.Rm)

NextRow == SweepFiringStatsCall

SpecRow == InitRow /\ [][NextRow]_vars

----------------------------------------------------------------------------
(* Claims about sweep_firing_stats (SpecRow) *)

\* the events within the window, which pandas closes on the right only
EventsWithin(iv) == {i \in 1..Len(row.events) : iv.left < row.events[i] /\ row.events[i] <= iv.right}

\* C15: with a stimulus interval, n_evoked is the number of events inside the
\* window, firing_rate is that number over the window's length, and
\* firing_duration is NaN for no evoked spike, (first_spike.width +
\* first_spike.trough_t)/1000 for one, and the last minus the first evoked time
\* for more; without a stimulus interval firing_rate and firing_duration are NaN
\* and n_evoked is 0.
C15_SweepFiringStats ==
    rpc = "done" =>
        LET st == row.stimulus_interval
            evoked == EventsWithin(st)
            n == Cardinality(evoked)
            first == CHOOSE i \in evoked : \A j \in evoked : i <= j
            last == CHOOSE i \in evoked : \A j \in evoked : j <= i
            w == row.first_spike_width
            t == row.first_spike_trough_t
        IN IF st.given
           THEN /\ row_stats.n_evoked = n
                /\ IsNum(row_stats.firing_rate)
                /\ row_stats.firing_rate.n * (st.right - st.left) = n * row_stats.firing_rate.d
                /\ n = 0 => row_stats.firing_duration = NaN
                /\ (n = 1 /\ (IsNaN(w) \/ IsNaN(t))) => row_stats.firing_duration = NaN
                /\ (n = 1 /\ IsNum(w) /\ IsNum(t)) =>
                      /\ IsNum(row_stats.firing_duration)
                      /\ row_stats.firing_duration.n * 1000 * w.d * t.d
                            = (w.n * t.d + t.n * w.d) * row_stats.firing_duration.d
                /\ n >= 2 =>
                      row_stats.firing_duration = Num(row.events[last] - row.events[first])
           ELSE /\ row_stats.n_evoked = 0
                /\ row_stats.firing_rate = NaN
                /\ row_stats.firing_duration = NaN

\* an event at the start of the window, which is outside it, and one at its end,
\* the only evoked spike
C15_Witness ==
    /\ rpc = "done"
    /\ row.stimulus_interval.given
    /\ \E i, j \in 1..Len(row.events) :
          /\ row.events[i] = row.stimulus_interval.left
          /\ row.events[j] = row.stimulus_interval.right
    /\ row_stats.n_evoked = 1
    /\ IsNum(row_stats.firing_duration)

\* the two windows have no time in common
Disjoint(a, b) == a.right <= b.left \/ b.right <= a.left

----------------------------------------------------------------------------
(* C17: the sweeps excluded for the deviance of their voltage *)

NextDeviance == CheckBadSweeps \/ ExcludeBadSweeps

SpecDeviance == InitDeviance /\ [][NextDeviance]_vars

\* sweep r is more than max_Vm_deviance MADs off at step c, the median and the
\* MAD being those of the five steps of the sweep itself
OffOwnMedian(r, c) ==
    LET med == Median(iv_voltage[r])
        dev == [s \in 1..Len(iv_voltage[r]) |-> AbsR(Sub(iv_voltage[r][s], med))]
    IN Gt(dev[c + 1], Scaled(Median(dev), max_Vm_deviance, 1))

\* sweep r is more than max_Vm_deviance MADs off at step c, the median and the
\* MAD being those of step c over the sweeps of the epoch
OffEpochMedian(r, c) ==
    LET col == StepColumn(iv_voltage, c)
        med == Median(col)
        dev == [s \in 1..Len(col) |-> AbsR(Sub(col[s], med))]
    IN Gt(dev[r], Scaled(Median(dev), max_Vm_deviance, 1))

\* what is written holds the sweeps that are not excluded, and no other
ExcludedEverywhere ==
    dpc = "done" =>
        /\ \A r \in 1..Len(iv_voltage) :
            /\ bad_sweeps[r] =>
                /\ \A i \in 1..Len(iv_stats) : iv_stats[i] # r
                /\ \A i \in 1..Len(sweep_stats) : sweep_stats[i] # r
            /\ ~bad_sweeps[r] => \E i \in 1..Len(sweep_stats) : sweep_stats[i] = r
        /\ \A i \in 1..Len(epoch_stats) :
            epoch_stats[i].n_sweeps = Cardinality({r \in 1..Len(iv_voltage) : ~bad_sweeps[r]})
        /\ (\A r \in 1..Len(iv_voltage) : bad_sweeps[r]) => epoch_stats = << >>

\* C17 as stated: a sweep is excluded exactly when its voltage at one of the
\* steps 0, 2, 3, 4 is strictly more than max-Vm-deviance MADs off the median
\* of the sweep itself; an excluded sweep is in none of iv_stats, sweep_stats
\* and epoch_stats and every other sweep is in sweep_stats
C17_OwnMedian ==
    /\ dpc \in {"exclude", "done"} =>
        \A r \in 1..Len(iv_voltage) :
            bad_sweeps[r] <=> \E c \in {0, 2, 3, 4} : OffOwnMedian(r, c)
    /\ ExcludedEverywhere

\* C17, amended: a sweep is excluded exactly when its voltage at one of the
\* steps 0, 2, 3, 4 (never step 1) is strictly more than max-Vm-deviance MADs
\* off the median of that step over the sweeps of the same epoch, the MAD being
\* the median over those sweeps of the absolute deviations at that step; an
\* excluded sweep is in none of iv_stats, sweep_stats and epoch_stats and
\* every other sweep is in sweep_stats
C17_EpochMedian ==
    /\ dpc \in {"exclude", "done"} =>
        \A r \in 1..Len(iv_voltage) :
            bad_sweeps[r] <=> \E c \in {0, 2, 3, 4} : OffEpochMedian(r, c)
    /\ ExcludedEverywhere

\* three sweeps whose step 3 is at 0, 1 and 5 and 1 MAD allowed: the third is 4
\* MADs off and is excluded, the first is exactly 1 MAD off and stays, though
\* it is the only one off at step 1
C17_Witness ==
    /\ dpc = "done"
    /\ Len(iv_voltage) = 3
    /\ max_Vm_deviance = 1
    /\ iv_voltage[2][4] = Num(1)
    /\ bad_sweeps = <<FALSE, FALSE, TRUE>>
    /\ sweep_stats = <<1, 2>>
    /\ epoch_stats = <<[n_sweeps |-> 2]>>
    /\ iv_voltage[1][2] = Num(5)
    /\ \A c \in {0, 2, 4} : iv_voltage[3][c + 1] = Num(0)
    /\ iv_voltage[3][4] = Num(5)

----------------------------------------------------------------------------
(* C18: the slope of each sweep and of the epoch (SpecStats) *)

\* the sweeps whose slope is a value
DefinedSlopes == {i \in 1..Len(firing_rate_slope) : ~IsNaN(firing_rate_slope[i])}

RECURSIVE SlopeSum(_)
SlopeSum(S) ==
    IF S = {} THEN Num(0)
    ELSE LET i == CHOOSE j \in S : TRUE
         IN Add(firing_rate_slope[i], SlopeSum(S \ {i}))

\* (rate difference) / (current difference) of sweep i to the sweep before it
LocalSlope(i) ==
    Div(Sub(sweeps[i].firing_rate, sweeps[i - 1].firing_rate),
        Sub(sweeps[i].current, sweeps[i - 1].current))

\* C18: in an epoch, the slope of a sweep is NaN for every sweep before the first
\* sweep with a firing rate above zero (and for the first sweep of the epoch) and
\* is (rate difference) / (current difference) to the previous sweep from the
\* first firing sweep on; the slope of the epoch is the mean of the slopes that
\* are not NaN, and is 0 with a NaN rheobase when every slope is NaN.
C18_FiringSlope ==
    /\ stpc \in {"stats", "done"} =>
        /\ Len(firing_rate_slope) = Len(sweeps)
        /\ \A i \in 1..Len(sweeps) :
            /\ (\A j \in 1..i : ~Fires(j)) => IsNaN(firing_rate_slope[i])
            /\ i = 1 => IsNaN(firing_rate_slope[i])
            /\ (i > 1 /\ \E j \in 1..i : Fires(j)) => firing_rate_slope[i] = LocalSlope(i)
    /\ stpc = "done" =>
        IF DefinedSlopes = {}
        THEN epoch_row.slope = Num(0) /\ epoch_row.rheobase = NaN
        ELSE epoch_row.slope = Div(SlopeSum(DefinedSlopes), Num(Cardinality(DefinedSlopes)))

\* a silent sweep and two firing ones at three currents: no slope for the first,
\* two different slopes after it, and their mean for the epoch
C18_Witness ==
    /\ stpc = "done"
    /\ Len(sweeps) = 3
    /\ ~Fires(1) /\ Fires(2) /\ Fires(3)
    /\ sweeps[1].firing_rate = Num(0)
    /\ DefinedSlopes = {2, 3}
    /\ IsNum(firing_rate_slope[2]) /\ IsNum(firing_rate_slope[3])
    /\ firing_rate_slope[2] # firing_rate_slope[3]
    /\ epoch_row.slope = Scaled(Add(firing_rate_slope[2], firing_rate_slope[3]), 1, 2)

----------------------------------------------------------------------------
(* C19: the deltas and the time of the epochs of a cell *)

NextCells == EpochsFrame \/ EpochStatsJoin \/ WriteEpochStats

SpecCells == InitCells /\ [][NextCells]_vars

\* the file of the first epoch of cell c: the one with the lowest epoch number
FirstEpoch(c) ==
    LET of == OfCell(pprox_files, c)
        i == CHOOSE j \in 1..Len(of) : \A l \in 1..Len(of) : of[j].epoch <= of[l].epoch
    IN of[i]

\* the file of a row of epoch_stats
FileOf(r) ==
    LET i == CHOOSE j \in 1..Len(pprox_files) :
                 pprox_files[j].cell = r.cell /\ pprox_files[j].epoch = r.epoch
    IN pprox_files[i]

\* the row r has its deltas and its time relative to the epoch file f
RelativeTo(r, f) ==
    /\ r.delta_Rs = Div(Sub(r.Rs, f.Rs), AbsR(f.Rs))
    /\ r.delta_Rm = Div(Sub(r.Rm, f.Rm), AbsR(f.Rm))
    /\ r.delta_Vm = Sub(r.Vm, f.Vm)
    /\ r.time = Num(FileOf(r).timestamp - f.timestamp)

AllZero(r) ==
    r.delta_Rs = Num(0) /\ r.delta_Rm = Num(0) /\ r.delta_Vm = Num(0) /\ r.time = Num(0)

\* C19: in epoch_stats, every row has delta_Rs and delta_Rm equal to
\* (value - first) / |first|, delta_Vm equal to Vm - first Vm and time equal to
\* the seconds since the timestamp of the first epoch, the first epoch being that
\* of the row's own cell; the row of the first epoch of a cell has 0 for all four.
C19_RelativeToFirstEpoch ==
    cpc = "done" =>
        \A i \in 1..Len(epoch_stats_csv) :
            /\ RelativeTo(epoch_stats_csv[i], FirstEpoch(epoch_stats_csv[i].cell))
            /\ epoch_stats_csv[i].epoch = FirstEpoch(epoch_stats_csv[i].cell).epoch
                  => AllZero(epoch_stats_csv[i])

\* the files of every cell are given with its first epoch first, and no epoch
\* has all its sweeps excluded
FirstGivenFirst ==
    \A i \in 1..Len(pprox_files) :
        /\ pprox_files[i].n_sweeps > 0
        /\ OfCell(pprox_files, pprox_files[i].cell)[1] = FirstEpoch(pprox_files[i].cell)

\* the statement of C19 for epoch files given with the first epoch of each cell
\* first, none of which has all its sweeps excluded
C19_FirstGivenFirst == FirstGivenFirst => C19_RelativeToFirstEpoch

\* two epochs of a cell and one of another, every row relative to its own cell
C19_FirstGivenFirstReached ==
    /\ cpc = "done"
    /\ FirstGivenFirst
    /\ Len(epoch_stats_csv) = 3
    /\ epoch_stats_csv[1].cell = epoch_stats_csv[2].cell
    /\ epoch_stats_csv[3].cell # epoch_stats_csv[1].cell
    /\ ~AllZero(epoch_stats_csv[2])
    /\ epoch_stats_csv[3].Rs # epoch_stats_csv[1].Rs

----------------------------------------------------------------------------
(* C20: the membrane and series resistance of a trial (SpecSweep) *)

\* the first negative step of the command, as a position in outcome.steps
FirstNegative ==
    CHOOSE i \in 1..Len(outcome.steps) :
        outcome.steps[i].val < 0 /\ \A j \in 1..(i - 1) : outcome.steps[j].val >= 0

\* the mean of the trace over the pad samples before onset, less the one sample
\* that is after samples past onset; NaN when there are no pad samples before onset
OnsetDrop(trace, onset, pad, after) ==
    IF pad = 0 \/ onset < pad THEN NaN
    ELSE Sub(Rat(SumSeq(SubSeq(trace, onset - pad + 1, onset)), pad),
             Num(trace[onset + after + 1]))

\* the drop of voltage over the drop of current (tenths of a pA) at onset, mV/pA
OnsetResistance(onset) ==
    LET pad == Samples(IntervalPadding, sweep.rate)
        after == Samples(1, sweep.rate)
    IN Div(OnsetDrop(VoltageTrace(sweep), onset, pad, after),
           Scaled(OnsetDrop(CurrentTrace(sweep), onset, pad, after), 1, 10))

\* dV/dI between the step means at positions a and b of the trial's steps, mV/pA
StepRatio(a, b) ==
    Div(Sub(outcome.trial.steps_V[b], outcome.trial.steps_V[a]),
        Sub(outcome.trial.steps_I[b], outcome.trial.steps_I[a]))

\* the mean of two resistances in mV/pA, in megaohm
MeanMOhm(x, y) == Scaled(Add(x, y), 1000, 2)

\* C20: the Rm of a trial is the mean of Rm_1, the dV/dI of the step means of
\* the baseline and of the first hyperpolarizing step, and Rm_2, that of the
\* first and the second hyperpolarizing step; its Rs is the mean of the series
\* resistances at the onsets of the two hyperpolarizing steps, each the drop of
\* voltage over the drop of current from the mean over the padding window
\* before the onset to the sample one millisecond after it (both in megaohm).
C20_Resistances ==
    (spc = "done" /\ outcome.kind = "trial") =>
        /\ outcome.trial.Rm = MeanMOhm(StepRatio(1, 3), StepRatio(3, 4))
        /\ outcome.trial.Rs =
              MeanMOhm(OnsetResistance(outcome.steps[FirstNegative].start),
                       OnsetResistance(outcome.steps[FirstNegative + 1].start))

\* a trial whose four resistances are numbers, Rm_1 # Rm_2, Rs_1 # Rs_2 and
\* Rs # Rm
C20_Witness ==
    /\ spc = "done"
    /\ outcome.kind = "trial"
    /\ IsNum(outcome.trial.Rm) /\ IsNum(outcome.trial.Rs)
    /\ outcome.trial.Rm # outcome.trial.Rs
    /\ IsNum(StepRatio(1, 3)) /\ IsNum(StepRatio(3, 4))
    /\ StepRatio(1, 3) # StepRatio(3, 4)
    /\ OnsetResistance(outcome.steps[FirstNegative].start)
         # OnsetResistance(outcome.steps[FirstNegative + 1].start)
    /\ outcome.trial.Rm = MeanMOhm(StepRatio(1, 3), StepRatio(3, 4))

----------------------------------------------------------------------------
(* C21, C22: the Intervals constructed for a sweep (SpecSweep) *)

WellFormed(iv) == 0 <= iv.start_index /\ iv.start_index <= iv.end_index

\* C21: every Interval constructed while a sweep is processed (baseline,
\* depolarization, both hyperpolarizations, stimulus, and the window before the
\* onset in series_resistance) has 0 <= start_index <= end_index.
C21_IntervalsWellFormed ==
    spc = "done" =>
        \A i \in 1..Len(outcome.intervals) : WellFormed(outcome.intervals[i].iv)

\* the step an Interval is taken from
StepOf(c) == outcome.steps[c.step + 1]

\* every step is long enough for what is taken from it: twice the padding for
\* the baseline, the steady interval for the depolarization and for the
\* hyperpolarizations, and the padding before the onset of a hyperpolarization
LongSteps ==
    \A i \in 1..Len(outcome.intervals) :
        LET c == outcome.intervals[i]
        IN /\ c.name = "baseline" => StepOf(c).len >= 2 * Samples(IntervalPadding, sweep.rate)
           /\ c.name = "depol" => StepOf(c).len >= Samples(SteadyIntervalDepol, sweep.rate)
           /\ c.name = "hypol" => StepOf(c).len >= Samples(SteadyIntervalHypol, sweep.rate)
           /\ c.name = "before" => StepOf(c).start >= Samples(IntervalPadding, sweep.rate)

\* the statement of C21 for sweeps whose steps are long enough
C21_LongSteps == LongSteps => C21_IntervalsWellFormed

\* a trial of the whole protocol at 1 kHz, its seven Intervals well formed
C21_LongStepsReached ==
    /\ spc = "done"
    /\ outcome.kind = "trial"
    /\ sweep.rate = 1000
    /\ LongSteps
    /\ Len(outcome.intervals) = 7
    /\ \A i \in 1..7 : outcome.intervals[i].iv.start_index < outcome.intervals[i].iv.end_index

\* the Intervals over which the current and the voltage of a step are averaged
StepWindows ==
    {i \in 1..Len(outcome.intervals) : outcome.intervals[i].name \in {"baseline", "depol", "hypol"}}

Within(iv, st) ==
    /\ st.start <= iv.start_index
    /\ iv.start_index <= iv.end_index
    /\ iv.end_index <= StepEnd(st)

\* C22: the window over which the current and voltage of a step are averaged
\* lies within [step_start, step_end) of the step it is taken from (baseline,
\* depolarizing, first and second hyperpolarizing), however long the step is.
C22_WindowWithinStep ==
    spc = "done" =>
        \A i \in StepWindows : Within(outcome.intervals[i].iv, StepOf(outcome.intervals[i]))

\* the statement of C22 for sweeps whose steps are long enough
C22_LongSteps == LongSteps => C22_WindowWithinStep

\* a trial of the whole protocol at 1 kHz: four windows, each within its own
\* step, those of the hyperpolarizations the later part of theirs
C22_LongStepsReached ==
    /\ spc = "done"
    /\ outcome.kind = "trial"
    /\ sweep.rate = 1000
    /\ LongSteps
    /\ Cardinality(StepWindows) = 4
    /\ \A i \in StepWindows :
          /\ Within(outcome.intervals[i].iv, StepOf(outcome.intervals[i]))
          /\ outcome.intervals[i].name = "hypol" =>
                outcome.intervals[i].iv.start_index > StepOf(outcome.intervals[i]).start
    /\ \A i, j \in StepWindows : i # j => outcome.intervals[i].step # outcome.intervals[j].step

----------------------------------------------------------------------------
(* C23: the stimulus of a trial (SpecSweep) *)

PositiveSteps == {i \in 1..Len(outcome.steps) : outcome.steps[i].val > 0}

\* the first positive step of the command, as a position in outcome.steps
FirstPositive == CHOOSE i \in PositiveSteps : \A j \in PositiveSteps : i <= j

\* the mean current, in pA, over the steady interval of the depolarization at
\* the end of step st; NaN for a step that is too short to hold it
SteadyCurrent(st) ==
    LET a == StepEnd(st) - Samples(SteadyIntervalDepol, sweep.rate)
        b == StepEnd(st) - Samples(IntervalPadding, sweep.rate)
    IN IF a < st.start \/ a >= b THEN NaN
       ELSE Rat(SumSeq(SubSeq(CurrentTrace(sweep), a + 1, b)), 10 * (b - a))

\* the trial has the stimulus of the first positive step: its window from the
\* start to the end of the step, in ms, and its steady mean current
StimulusOfFirstPositive ==
    LET st == outcome.steps[FirstPositive]
    IN /\ "stimulus" \in outcome.trial.fields
       /\ outcome.trial.stimulus_interval =
             <<st.start * SamplingPeriod(sweep.rate), StepEnd(st) * SamplingPeriod(sweep.rate)>>
       /\ outcome.trial.stimulus_I = SteadyCurrent(st)

\* C23: a trial has a stimulus if and only if the command has a positive step;
\* when it has one, its window is [step_start, step_end) of the first positive
\* step and its I the steady mean current of that step, wherever the positive
\* step is in the command, the first place included.
C23_StimulusIffPositive ==
    (spc = "done" /\ outcome.kind = "trial") =>
        IF PositiveSteps = {}
        THEN "stimulus" \notin outcome.trial.fields
        ELSE StimulusOfFirstPositive

\* the same for commands whose first positive step is not the first step and is
\* at least as long as the steady interval
C23_PositiveNotFirst ==
    (/\ spc = "done" /\ outcome.kind = "trial"
     /\ PositiveSteps # {} => /\ FirstPositive > 1
                              /\ outcome.steps[FirstPositive].len
                                    >= Samples(SteadyIntervalDepol, sweep.rate))
    => C23_StimulusIffPositive

\* a trial of the protocol with its stimulus: 300 ms to 600 ms at 50 pA
C23_PositiveNotFirstReached ==
    /\ spc = "done"
    /\ outcome.kind = "trial"
    /\ PositiveSteps # {} /\ FirstPositive = 2
    /\ outcome.trial.stimulus_interval = <<300, 600>>
    /\ outcome.trial.stimulus_I = Num(50)
    /\ StimulusOfFirstPositive

----------------------------------------------------------------------------
(* C24: when abf2pprox writes its file (Spec) *)

\* the file is there only once the run has ended normally, and then it holds a
\* trial for every sweep of the block, in order, and the statistics of the epoch
WrittenWhole ==
    /\ exit_status # "0" => output_file = NoFile
    /\ output_file.written =>
          /\ pc \in {"done", "loaded"}
          /\ exit_status = "0"
          /\ errors = << >>
          /\ sweep_idx = Len(block)
          /\ Len(output_file.json.pprox) = Len(block)
          /\ \A i \in 1..Len(block) : output_file.json.pprox[i].index = JsonEncode(PyInt(i - 1))
          /\ "epoch_stats" \in output_file.json.keys
          /\ fit # NoFit
          /\ output_file.epoch_stats = EpochStats(hypol_I, fit, block[1].rate)

\* the file changes in one step only: the one that follows the last sweep and
\* computes the statistics
WrittenOnce ==
    output_file' # output_file =>
        /\ pc = "stats" /\ pc' = "done"
        /\ output_file = NoFile
        /\ Len(pprox) = Len(block)

\* C24: abf2pprox writes its file only after every sweep of the epoch has been
\* processed and the statistics of the epoch computed: a run that ends in a fatal
\* error (neuron not registered, no such epoch, signal units, protocol channel
\* missing or not a current, no current steps) creates or changes no file, and a
\* written file has a trial for every sweep and the epoch statistics.
C24_WrittenLast == [](WrittenWhole) /\ [][WrittenOnce]_vars

\* a file written for a block of two sweeps
C24_Witness ==
    /\ pc = "done"
    /\ exit_status = "0"
    /\ output_file.written
    /\ Len(block) = 2
    /\ Len(output_file.json.pprox) = 2
    /\ IsNum(output_file.epoch_stats.tau)

\* a run stopped by a fatal error in its second sweep, the first having given a
\* trial: no file
C24_FatalReached ==
    /\ pc = "done"
    /\ exit_status = "255"
    /\ Len(pprox) = 1
    /\ errors # << >>
    /\ output_file = NoFile

====
